---- MODULE Spec2Model ----
(***************************************************************************)
(* The ENB mini-app REST API (Express handlers over a Firestore document   *)
(* store) as a state machine.  Every handler is an async function: each    *)
(* `await` on the store is one atomic step made of the store operation and *)
(* the synchronous code that follows it up to the next `await`, so the     *)
(* handlers of concurrent requests interleave at their awaits.  A request  *)
(* occupies a slot from its arrival to its response.                       *)
(***************************************************************************)
EXTENDS Integers, Sequences, FiniteSets, Bags, TLC

VARIABLES
    nreq,       \* requests received so far
    accounts,   \* collection 'accounts': wallet -> document
    usage,      \* collection 'invitationUsage': a bag of usage records
    now,        \* the server clock, in ticks
    revision,   \* which revision of the server is deployed
    reqs,       \* slot -> the request in flight in it (its handler's locals)
    resp,       \* the response sent by the last step, if it sent one
    transactions, \* collection 'transactions': a bag of transaction records
    claimed,    \* history: the <<wallet, calendar day>> pairs of granted claims
    chain,      \* the EnbMiniApp contract, the ENB token and the block time
    client      \* the mini app: the state of its Account and page components

vars == <<nreq, accounts, usage, now, revision, reqs, resp, transactions, claimed,
          chain, client>>

(***************************************************************************)
(* Bounds                                                                  *)
(***************************************************************************)
\* document IDs in the order Firestore returns them (ascending by name)
WalletOrder == <<"w1", "w2", "w3">>
Wallets == {WalletOrder[i] : i \in 1..Len(WalletOrder)}
Codes == {"c1", "c2", "c3"}
Slots == {1, 2}
\* wallets that redeemed a code before the modelled requests begin
EarlierWallets == <<"u1", "u2", "u3", "u4", "u5", "u6", "u7">>
\* a seeded inviter has at most this many uses of its code left
MaxRemaining == 1
MaxUsesArg == 1
\* the clock: ticks in a day, and the days it runs past the first
TicksPerDay == 2
MaxDays == 1
\* the longest streak an account starts with
MaxStreak == 6
MaxRequests == 2
\* the largest enbBalance, totalEarned and consecutiveDays of a ranked account
MaxValue == 1
\* the largest ?limit= of a leaderboard request
MaxLimit == 2
\* the largest amount of an update-balance request
MaxAmount == 2
\* the hours of block time a behaviour of the contract covers
MaxHours == 24
\* the transaction hashes one Account component obtains
MaxClaims == 2
\* the profile requests one page component sends
MaxFetches == 3

(***************************************************************************)
(* Values                                                                  *)
(***************************************************************************)
Null == -1
Missing == ""
Levels == {"Based", "Super Based", "Legendary"}
Revisions == {"daily-claim", "checkin"}

\* JavaScript `v || d` on a number: 0 and undefined are both falsy
JsOr(v, d) ==
    IF v = 0 THEN d ELSE v

DefaultMaxUses == 5
SeededMaxUses == 105
maxAttempts == 10

NoDoc ==
    [exists |-> FALSE, membershipLevel |-> "Based", invitationCode |-> Missing,
     maxInvitationUses |-> 0, currentInvitationUses |-> 0,
     isActivated |-> FALSE, activatedAt |-> Null, activatedBy |-> Missing,
     inviterWallet |-> Missing, lastDailyClaimTime |-> Null, lastCheckIn |-> Null,
     consecutiveDays |-> 0, enbBalance |-> 0, totalEarned |-> 0,
     lastTransactionHash |-> Missing, lastUpgradeAt |-> Null,
     upgradeTransactionHash |-> Missing]

\* the document create-account writes with set()
NewAccount(invitationCode) ==
    [NoDoc EXCEPT !.exists = TRUE, !.invitationCode = invitationCode]

\* the document create-default-user writes with set()
DefaultUser(invitationCode, maxUses, t) ==
    [NoDoc EXCEPT !.exists = TRUE, !.invitationCode = invitationCode,
                  !.maxInvitationUses = JsOr(maxUses, SeededMaxUses),
                  !.isActivated = TRUE, !.activatedAt = t]

UsageLog(invitationCode, usedBy, inviterWallet, t) ==
    [invitationCode |-> invitationCode, usedBy |-> usedBy,
     usedAt |-> t, inviterWallet |-> inviterWallet]

(***************************************************************************)
(* Requests and responses                                                  *)
(***************************************************************************)
Idle ==
    [kind |-> "none", pc |-> "idle", walletAddress |-> Missing,
     invitationCode |-> Missing, maxUses |-> 0, attempts |-> 0,
     inviterWallet |-> Missing, currentUses |-> 0, maxUsesRead |-> 0,
     at |-> Null, consecutiveDays |-> 0, finalReward |-> 0,
     enbBalance |-> 0, totalEarned |-> 0, transactionHash |-> Missing,
     membershipLevel |-> Missing, balanceRank |-> 0, earningsRank |-> 0,
     amount |-> 0, type |-> Missing, newBalance |-> 0]

NoResp ==
    [kind |-> "none", walletAddress |-> Missing, status |-> 0, msg |-> "", reward |-> 0, consecutiveDays |-> 0,
     newBalance |-> 0, inviterWallet |-> Missing, remainingUses |-> 0,
     leaderboard |-> <<>>, rankings |-> <<>>, previousBalance |-> 0,
     canClaim |-> FALSE, lastClaimToday |-> FALSE]

\* res.status(status).json({error | message: msg}) for request r
Reply(r, status, msg) ==
    [NoResp EXCEPT !.kind = r.kind, !.walletAddress = r.walletAddress,
                   !.status = status, !.msg = msg]

\* the handler of slot s returns: the response is sent and the slot is free
Respond(s, r) ==
    /\ resp' = r
    /\ reqs' = [reqs EXCEPT ![s] = Idle]

\* the handler of slot s suspends at its next await with locals r
Await(s, r) ==
    /\ reqs' = [reqs EXCEPT ![s] = r]
    /\ resp' = NoResp

Store == <<accounts, usage, transactions>>
\* what no handler writes, and the history, which only a granted claim extends
Env == <<now, revision, claimed, chain, client>>

(***************************************************************************)
(* Store queries                                                           *)
(***************************************************************************)
\* db.collection('accounts').where('invitationCode', '==', code)
AccountsWithCode(code) ==
    {w \in Wallets : accounts[w].exists /\ accounts[w].invitationCode = code}

\* .limit(1).get(): the first matching document in document-ID order
FirstOf(S) ==
    WalletOrder[CHOOSE i \in 1..Len(WalletOrder) :
        /\ WalletOrder[i] \in S
        /\ \A j \in 1..Len(WalletOrder) : WalletOrder[j] \in S => i <= j]

isInvitationCodeUnique(code) ==
    AccountsWithCode(code) = {}

\* db.collection('invitationUsage').where('invitationCode', '==', code)
\*   .where('usedBy', '==', wallet).limit(1).get().empty
NoUsageOf(code, wallet) ==
    \A u \in BagToSet(usage) : ~(u.invitationCode = code /\ u.usedBy = wallet)

\* a request arrives and takes the first free slot
Arrives(s) ==
    /\ reqs[s].pc = "idle"
    /\ \A t \in Slots : t < s => reqs[t].pc # "idle"
    /\ nreq < MaxRequests
    /\ nreq' = nreq + 1

Running(s, kind, pc) ==
    /\ reqs[s].kind = kind
    /\ reqs[s].pc = pc
    /\ nreq' = nreq

(***************************************************************************)
(* POST /api/create-account                                                *)
(***************************************************************************)
\* one turn of the do-while of generateUniqueInvitationCode: the uniqueness
\* query of the code generated last (code, the attempts-th one) answers, and
\* the handler goes on to set() the account, to generate the next code and
\* query it, or to throw
generateUniqueInvitationCode(s, r, code) ==
    IF isInvitationCodeUnique(code)
    THEN Await(s, [r EXCEPT !.pc = "set", !.invitationCode = code])
    ELSE IF r.attempts + 1 > maxAttempts
         THEN Respond(s, Reply(r, 500, "Failed to create account"))
         ELSE Await(s, [r EXCEPT !.pc = "generate", !.attempts = r.attempts + 1])

CreateAccountArrive(s, walletAddress, transactionHash, code) ==
    /\ Arrives(s)
    /\ LET r == [Idle EXCEPT !.kind = "create-account",
                             !.walletAddress = walletAddress,
                             !.transactionHash = transactionHash]
       IN IF walletAddress = Missing \/ transactionHash = Missing
          THEN Respond(s, Reply(r, 400, "Missing required fields"))
          ELSE generateUniqueInvitationCode(s, [r EXCEPT !.attempts = 1], code)
    /\ UNCHANGED <<Store, Env>>

\* crypto.randomBytes(4): any code may come out
CreateAccountGenerate(s, code) ==
    /\ Running(s, "create-account", "generate")
    /\ generateUniqueInvitationCode(s, reqs[s], code)
    /\ UNCHANGED <<Store, Env>>

CreateAccountSet(s) ==
    /\ Running(s, "create-account", "set")
    /\ accounts' = [accounts EXCEPT ![reqs[s].walletAddress] =
                        NewAccount(reqs[s].invitationCode)]
    /\ Respond(s, Reply(reqs[s], 201, "Account created successfully"))
    /\ UNCHANGED <<usage, transactions, Env>>

(***************************************************************************)
(* POST /api/create-default-user                                           *)
(***************************************************************************)
CreateDefaultUserArrive(s, walletAddress, invitationCode, maxUses) ==
    /\ Arrives(s)
    /\ LET r == [Idle EXCEPT !.kind = "create-default-user",
                             !.walletAddress = walletAddress,
                             !.invitationCode = invitationCode,
                             !.maxUses = maxUses, !.at = now]
       IN IF walletAddress = Missing \/ invitationCode = Missing
          THEN Respond(s, Reply(r, 400, "Missing required fields"))
          ELSE IF ~isInvitationCodeUnique(invitationCode)
               THEN Respond(s, Reply(r, 400, "Invitation code already exists"))
               ELSE Await(s, [r EXCEPT !.pc = "set"])
    /\ UNCHANGED <<Store, Env>>

CreateDefaultUserSet(s) ==
    /\ Running(s, "create-default-user", "set")
    /\ accounts' = [accounts EXCEPT ![reqs[s].walletAddress] =
                        DefaultUser(reqs[s].invitationCode, reqs[s].maxUses, reqs[s].at)]
    /\ Respond(s, Reply(reqs[s], 201, "Default user created successfully"))
    /\ UNCHANGED <<usage, transactions, Env>>

(***************************************************************************)
(* POST /api/activate-account                                              *)
(***************************************************************************)
Reject_Logged(s, r, status, msg) ==
    /\ Respond(s, Reply(r, status, msg))
    /\ accounts' = accounts
    /\ transactions' = transactions
    /\ usage' = usage (+) SetToBag({UsageLog(r.invitationCode, r.walletAddress,
                                             Missing, now)})

\* return res.status(status).json({ error: msg }): nothing was written
Reject(s, r, status, msg) ==
    /\ Respond(s, Reply(r, status, msg))
    /\ UNCHANGED Store

\* the handler issues its next query and suspends
Proceed(s, r) ==
    /\ Await(s, r)
    /\ UNCHANGED Store

ActivateArrive(s, walletAddress, invitationCode) ==
    /\ Arrives(s)
    /\ LET r == [Idle EXCEPT !.kind = "activate-account",
                             !.walletAddress = walletAddress,
                             !.invitationCode = invitationCode]
       IN IF walletAddress = Missing \/ invitationCode = Missing
          THEN Reject(s, r, 400, "Missing required fields")
          ELSE IF ~accounts[walletAddress].exists
               THEN Reject(s, r, 404, "Account not found")
               ELSE IF accounts[walletAddress].isActivated
                    THEN Reject(s, r, 400, "Account is already activated")
                    ELSE Proceed(s, [r EXCEPT !.pc = "queryInviter"])
    /\ UNCHANGED Env

InviterActivated_Skipped(inviterData) ==
    TRUE

\* the check that the inviter is activated
InviterActivated(inviterData) ==
    inviterData.isActivated

UsageLimitReached_OffByOne(currentUses, maxUses) ==
    currentUses > maxUses

UsageLimitReached_SeededOnly(currentUses, maxUses) ==
    currentUses >= SeededMaxUses

\* the usage-limit check on the counts read from the inviter's document
UsageLimitReached(currentUses, maxUses) ==
    currentUses >= maxUses

ActivateQueryInviter(s) ==
    /\ Running(s, "activate-account", "queryInviter")
    /\ LET r == reqs[s]
           found == AccountsWithCode(r.invitationCode)
       IN IF found = {}
          THEN Reject(s, r, 400, "Invalid invitation code")
          ELSE LET inviter == FirstOf(found)
                   inviterData == accounts[inviter]
                   maxUses == JsOr(inviterData.maxInvitationUses, DefaultMaxUses)
                   currentUses == JsOr(inviterData.currentInvitationUses, 0)
               IN IF ~InviterActivated(inviterData)
                  THEN Reject(s, r, 400, "Invitation code is from an inactive account")
                  ELSE IF UsageLimitReached(currentUses, maxUses)
                       THEN Reject(s, r, 400, "Invitation code usage limit exceeded")
                       ELSE Proceed(s, [r EXCEPT !.pc = "queryUsage",
                                                 !.inviterWallet = inviter,
                                                 !.currentUses = currentUses,
                                                 !.maxUsesRead = maxUses])
    /\ UNCHANGED Env

ActivateQueryUsage(s) ==
    /\ Running(s, "activate-account", "queryUsage")
    /\ LET r == reqs[s]
       IN IF ~NoUsageOf(r.invitationCode, r.walletAddress)
          THEN Reject(s, r, 400, "You have already used this invitation code")
          ELSE Proceed(s, [r EXCEPT !.pc = "commit", !.at = now])
    /\ UNCHANGED Env

ActivationBatch_Unbatched(r) ==
    /\ accounts' = [accounts EXCEPT ![r.walletAddress] =
                        [@ EXCEPT !.isActivated = TRUE, !.activatedAt = r.at,
                                  !.activatedBy = r.invitationCode,
                                  !.inviterWallet = r.inviterWallet]]
    /\ usage' = usage
    /\ transactions' = transactions

\* batch.commit(): the three writes of the batch, applied together in the
\* order they were added
ActivationBatch(r) ==
    LET activated == [accounts EXCEPT ![r.walletAddress] =
                         [@ EXCEPT !.isActivated = TRUE, !.activatedAt = r.at,
                                   !.activatedBy = r.invitationCode,
                                   !.inviterWallet = r.inviterWallet]]
    IN /\ accounts' = [activated EXCEPT ![r.inviterWallet] =
                          [@ EXCEPT !.currentInvitationUses = r.currentUses + 1]]
       /\ usage' = usage (+) SetToBag({UsageLog(r.invitationCode, r.walletAddress,
                                                 r.inviterWallet, r.at)})
       /\ transactions' = transactions

ActivateCommit(s) ==
    /\ Running(s, "activate-account", "commit")
    /\ LET r == reqs[s]
       IN IF accounts[r.walletAddress].exists /\ accounts[r.inviterWallet].exists
          THEN /\ ActivationBatch(r)
               /\ Respond(s, [Reply(r, 200, "Account activated successfully")
                                 EXCEPT !.inviterWallet = r.inviterWallet,
                                        !.remainingUses = r.maxUsesRead - (r.currentUses + 1)])
          ELSE Reject(s, r, 500, "Failed to activate account")
    /\ UNCHANGED Env

(***************************************************************************)
(* The reward calculation of POST /api/daily-claim and POST /api/checkin   *)
(***************************************************************************)
\* the calendar day a time falls on
CalendarDay(t) ==
    t \div TicksPerDay

\* 24 * 60 * 60 * 1000 ms, in ticks
DayMs == TicksPerDay

\* new Date(d.getFullYear(), d.getMonth(), d.getDate()).getTime()
today(t) ==
    (t \div TicksPerDay) * TicksPerDay

Min(a, b) ==
    IF a < b THEN a ELSE b

claimedToday_SameInstant(last, t) ==
    /\ last # Null
    /\ last = t

\* the "already claimed today" check on the stored time of the last claim
claimedToday(last, t) ==
    /\ last # Null
    /\ today(last) = today(t)

\* lastClaimDate.getTime() === yesterday.getTime()
claimedYesterday(last, t) ==
    /\ last # Null
    /\ today(last) = today(t) - DayMs

consecutiveDaysFor_NoReset(last, consecutiveDays, t) ==
    IF last # Null THEN JsOr(consecutiveDays, 0) + 1 ELSE 1

consecutiveDaysFor_Capped(last, consecutiveDays, t) ==
    IF claimedYesterday(last, t) THEN Min(JsOr(consecutiveDays, 0) + 1, 5) ELSE 1

\* let consecutiveDays = 1, raised after a claim the day before
consecutiveDaysFor(last, consecutiveDays, t) ==
    IF claimedYesterday(last, t) THEN JsOr(consecutiveDays, 0) + 1 ELSE 1

enbRewardFor_Uncapped(last, consecutiveDays, t) ==
    IF claimedYesterday(last, t)
    THEN 10 * consecutiveDaysFor(last, consecutiveDays, t)
    ELSE 10

\* let enbReward = 10, times the streak bonus (max 5x) after a claim the day before
enbRewardFor(last, consecutiveDays, t) ==
    IF claimedYesterday(last, t)
    THEN 10 * Min(consecutiveDaysFor(last, consecutiveDays, t), 5)
    ELSE 10

membershipMultiplier_NoSpace(membershipLevel) ==
    CASE membershipLevel = "Based" -> 2
      [] membershipLevel = "SuperBased" -> 3
      [] membershipLevel = "Legendary" -> 4
      [] OTHER -> 2

\* the table membershipMultiplier, in halves: 1 -> 2, 1.5 -> 3, 2 -> 4;
\* a level that is no key of the table gets `|| 1`
membershipMultiplier(membershipLevel) ==
    CASE membershipLevel = "Based" -> 2
      [] membershipLevel = "Super Based" -> 3
      [] membershipLevel = "Legendary" -> 4
      [] OTHER -> 2

\* Math.floor(enbReward * (membershipMultiplier[level] || 1))
finalRewardFor(enbReward, membershipLevel) ==
    (enbReward * membershipMultiplier(membershipLevel)) \div 2

\* the handler from its read of the account to its update() call, for the
\* time-of-last-claim field `last` of its revision
ClaimRead(s, r, last, alreadyMsg, notFoundMsg) ==
    LET accountData == accounts[r.walletAddress]
    IN IF ~accountData.exists
       THEN Reject(s, r, 404, notFoundMsg)
       ELSE IF ~accountData.isActivated
            THEN Reject(s, r, 400, "Account is not activated")
            ELSE IF claimedToday(last, now)
                 THEN Reject(s, r, 400, alreadyMsg)
                 ELSE LET consecutiveDays ==
                              consecutiveDaysFor(last, accountData.consecutiveDays, now)
                          finalReward ==
                              finalRewardFor(
                                  enbRewardFor(last, accountData.consecutiveDays, now),
                                  accountData.membershipLevel)
                      IN Proceed(s, [r EXCEPT
                             !.pc = "update", !.at = now,
                             !.consecutiveDays = consecutiveDays,
                             !.finalReward = finalReward,
                             !.enbBalance = JsOr(accountData.enbBalance, 0) + finalReward,
                             !.totalEarned = JsOr(accountData.totalEarned, 0) + finalReward])

\* the response to a claim that was granted
Granted(r, msg) ==
    [Reply(r, 200, msg) EXCEPT !.reward = r.finalReward,
                               !.consecutiveDays = r.consecutiveDays,
                               !.newBalance = r.enbBalance]

(***************************************************************************)
(* POST /api/daily-claim                                                   *)
(***************************************************************************)
DailyClaimArrive(s, walletAddress, transactionHash) ==
    /\ revision = "daily-claim"
    /\ Arrives(s)
    /\ LET r == [Idle EXCEPT !.kind = "daily-claim",
                             !.walletAddress = walletAddress,
                             !.transactionHash = transactionHash]
       IN IF walletAddress = Missing \/ transactionHash = Missing
          THEN Reject(s, r, 400, "Missing wallet address or transaction hash")
          ELSE ClaimRead(s, r, accounts[walletAddress].lastDailyClaimTime,
                         "Already claimed today", "Account not found")
    /\ UNCHANGED Env

\* accountRef.update({...}) with the values computed from the account as read
DailyClaimWrite(r) ==
    accounts' = [accounts EXCEPT ![r.walletAddress] =
                    [@ EXCEPT !.lastDailyClaimTime = r.at,
                              !.consecutiveDays = r.consecutiveDays,
                              !.enbBalance = r.enbBalance,
                              !.totalEarned = r.totalEarned,
                              !.lastTransactionHash = r.transactionHash]]

DailyClaimUpdate(s) ==
    /\ Running(s, "daily-claim", "update")
    /\ DailyClaimWrite(reqs[s])
    /\ Respond(s, Granted(reqs[s], "Daily claim successful"))
    /\ claimed' = claimed \cup {<<reqs[s].walletAddress, CalendarDay(reqs[s].at)>>}
    /\ UNCHANGED <<usage, transactions, now, revision, chain, client>>

(***************************************************************************)
(* GET /api/daily-claim-status/:walletAddress                              *)
(***************************************************************************)
\* the whole handler: its one await is the read of the account
DailyClaimStatus(s, walletAddress) ==
    /\ revision = "daily-claim"
    /\ Arrives(s)
    /\ LET r == [Idle EXCEPT !.kind = "daily-claim-status",
                             !.walletAddress = walletAddress]
           accountData == accounts[walletAddress]
           lastClaimToday == claimedToday(accountData.lastDailyClaimTime, now)
       IN IF ~accountData.exists
          THEN Reject(s, r, 404, "Account not found")
          ELSE /\ Respond(s, [Reply(r, 200, "") EXCEPT
                                 !.canClaim = ~lastClaimToday,
                                 !.lastClaimToday = lastClaimToday,
                                 !.consecutiveDays =
                                     JsOr(accountData.consecutiveDays, 0)])
               /\ UNCHANGED Store
    /\ UNCHANGED Env

(***************************************************************************)
(* POST /api/checkin                                                       *)
(***************************************************************************)
CheckinArrive(s, walletAddress) ==
    /\ revision = "checkin"
    /\ Arrives(s)
    /\ LET r == [Idle EXCEPT !.kind = "checkin", !.walletAddress = walletAddress]
       IN IF walletAddress = Missing
          THEN Reject(s, r, 400, "Missing wallet address")
          ELSE ClaimRead(s, r, accounts[walletAddress].lastCheckIn,
                         "Already checked in today", "Account not found")
    /\ UNCHANGED Env

CheckinWrite(r) ==
    accounts' = [accounts EXCEPT ![r.walletAddress] =
                    [@ EXCEPT !.lastCheckIn = r.at,
                              !.consecutiveDays = r.consecutiveDays,
                              !.enbBalance = r.enbBalance,
                              !.totalEarned = r.totalEarned]]

CheckinUpdate(s) ==
    /\ Running(s, "checkin", "update")
    /\ CheckinWrite(reqs[s])
    /\ Respond(s, Granted(reqs[s], "Check-in successful"))
    /\ claimed' = claimed \cup {<<reqs[s].walletAddress, CalendarDay(reqs[s].at)>>}
    /\ UNCHANGED <<usage, transactions, now, revision, chain, client>>

(***************************************************************************)
(* POST /api/update-membership                                             *)
(***************************************************************************)
validLevels ==
    {"Based", "Super Based", "Legendary"}

UpdateMembershipArrive(s, walletAddress, membershipLevel, transactionHash) ==
    /\ Arrives(s)
    /\ LET r == [Idle EXCEPT !.kind = "update-membership",
                             !.walletAddress = walletAddress,
                             !.membershipLevel = membershipLevel,
                             !.transactionHash = transactionHash]
       IN IF walletAddress = Missing \/ membershipLevel = Missing
             \/ transactionHash = Missing
          THEN Reject(s, r, 400, "Missing required fields")
          ELSE IF membershipLevel \notin validLevels
               THEN Reject(s, r, 400, "Invalid membership level")
               ELSE IF ~accounts[walletAddress].exists
                    THEN Reject(s, r, 404, "Account not found")
                    ELSE IF ~accounts[walletAddress].isActivated
                         THEN Reject(s, r, 400, "Account is not activated")
                         ELSE Proceed(s, [r EXCEPT !.pc = "update", !.at = now])
    /\ UNCHANGED Env

UpdateMembershipUpdate(s) ==
    /\ Running(s, "update-membership", "update")
    /\ accounts' = [accounts EXCEPT ![reqs[s].walletAddress] =
                        [@ EXCEPT !.membershipLevel = reqs[s].membershipLevel,
                                  !.lastUpgradeAt = reqs[s].at,
                                  !.upgradeTransactionHash = reqs[s].transactionHash]]
    /\ Respond(s, Reply(reqs[s], 200, "Membership level updated successfully"))
    /\ UNCHANGED <<usage, transactions, Env>>

\* JavaScript's undefined and NaN
Undefined == -2
NaN == -3

\* a + b of two JavaScript numbers, either of which may be undefined or NaN
JsAdd(a, b) ==
    IF a \in {Undefined, NaN} \/ b \in {Undefined, NaN} THEN NaN ELSE a + b

(***************************************************************************)
(* POST /api/update-balance                                                *)
(***************************************************************************)
TransactionTypes == {"credit", "debit"}

\* the document the batch adds to the transactions collection
transactionData(r) ==
    [walletAddress |-> r.walletAddress, amount |-> r.amount, type |-> r.type,
     description |-> "", balanceBefore |-> r.enbBalance,
     balanceAfter |-> r.newBalance, timestamp |-> r.at]

\* a debit of one more than the balance passes
InsufficientBalance_OffByOne(currentBalance, transactionAmount) ==
    currentBalance + 1 < transactionAmount

\* if (currentBalance < transactionAmount)
InsufficientBalance(currentBalance, transactionAmount) ==
    currentBalance < transactionAmount

\* the request is validated and the account read; amount is the number
\* parseFloat gives, Undefined when the body has none
UpdateBalanceArrive(s, walletAddress, amount, type) ==
    /\ Arrives(s)
    /\ LET r == [Idle EXCEPT !.kind = "update-balance",
                             !.walletAddress = walletAddress,
                             !.amount = amount, !.type = type]
       IN IF walletAddress = Missing \/ amount = Undefined \/ type = Missing
          THEN Reject(s, r, 400, "Missing required fields")
          ELSE IF type \notin TransactionTypes
               THEN Reject(s, r, 400, "Invalid transaction type")
               ELSE IF ~accounts[walletAddress].exists
                    THEN Reject(s, r, 404, "Account not found")
                    ELSE LET currentBalance ==
                                 JsOr(accounts[walletAddress].enbBalance, 0)
                         IN IF type = "credit"
                            THEN Proceed(s, [r EXCEPT
                                     !.pc = "commit", !.at = now,
                                     !.enbBalance = currentBalance,
                                     !.newBalance = currentBalance + amount])
                            ELSE IF InsufficientBalance(currentBalance, amount)
                                 THEN Reject(s, r, 400, "Insufficient balance")
                                 ELSE Proceed(s, [r EXCEPT
                                          !.pc = "commit", !.at = now,
                                          !.enbBalance = currentBalance,
                                          !.newBalance = currentBalance - amount])
    /\ UNCHANGED Env

\* the balance changes and the record is not written
BalanceBatch_NoRecord(r) ==
    /\ accounts' = [accounts EXCEPT
                       ![r.walletAddress].enbBalance = r.newBalance]
    /\ transactions' = transactions

\* batch.commit(): the balance and the transaction record in one write
BalanceBatch(r) ==
    /\ accounts' = [accounts EXCEPT
                       ![r.walletAddress].enbBalance = r.newBalance]
    /\ transactions' = transactions (+) SetToBag({transactionData(r)})

UpdateBalanceCommit(s) ==
    /\ Running(s, "update-balance", "commit")
    /\ BalanceBatch(reqs[s])
    /\ Respond(s, [Reply(reqs[s], 200, "Balance updated successfully") EXCEPT
                      !.previousBalance = reqs[s].enbBalance,
                      !.newBalance = reqs[s].newBalance])
    /\ UNCHANGED <<usage, Env>>

(***************************************************************************)
(* GET /api/leaderboard/balance and GET /api/user-rankings/:walletAddress  *)
(***************************************************************************)
DefaultLimit == 50

Field(a, field) ==
    CASE field = "enbBalance" -> a.enbBalance
      [] field = "totalEarned" -> a.totalEarned
      [] OTHER -> a.consecutiveDays

\* db.collection('accounts').where('isActivated', '==', true)
ActivatedAccounts ==
    {w \in Wallets : accounts[w].exists /\ accounts[w].isActivated}

IndexOf(w) ==
    CHOOSE i \in 1..Len(WalletOrder) : WalletOrder[i] = w

\* .orderBy(field, 'desc'): by the field descending, documents of equal value
\* by document ID in the same direction
RECURSIVE orderByDesc(_, _)
orderByDesc(S, field) ==
    IF S = {} THEN <<>>
    ELSE LET first == CHOOSE w \in S : \A v \in S :
                          \/ Field(accounts[w], field) > Field(accounts[v], field)
                          \/ /\ Field(accounts[w], field) = Field(accounts[v], field)
                             /\ IndexOf(w) >= IndexOf(v)
         IN <<first>> \o orderByDesc(S \ {first}, field)

\* .limit(n)
limit(docs, n) ==
    SubSeq(docs, 1, Min(n, Len(docs)))

\* snapshot.forEach(callback): the arguments of the calls of the callback.
\* QuerySnapshot.forEach calls it with the document alone, so a second
\* parameter of the callback is undefined
forEach(docs) ==
    [i \in 1..Len(docs) |-> [doc |-> docs[i], index |-> Undefined]]

\* snapshot.docs.map(callback): Array.prototype.map passes the index too
\* (zero-based)
docsMap(docs) ==
    [i \in 1..Len(docs) |-> [doc |-> docs[i], index |-> i - 1]]

\* services/firebase.js: the same query, ranked by the index of map
getTopAccountsBy(field, n) ==
    LET calls == docsMap(limit(orderByDesc(ActivatedAccounts, field), n))
    IN [i \in 1..Len(calls) |->
           [rank |-> calls[i].index + 1, walletAddress |-> calls[i].doc,
            value |-> Field(accounts[calls[i].doc], field)]]

\* the entry the callback of the handler pushes for document doc
LeaderboardEntry(doc, index) ==
    [rank |-> JsAdd(index, 1), walletAddress |-> doc,
     enbBalance |-> JsOr(accounts[doc].enbBalance, 0)]

\* the whole handler: its one await is the query
LeaderboardBalance(s, limitArg) ==
    /\ Arrives(s)
    /\ LET r == [Idle EXCEPT !.kind = "leaderboard-balance"]
           n == JsOr(limitArg, DefaultLimit)
           snapshot == limit(orderByDesc(ActivatedAccounts, "enbBalance"), n)
           calls == forEach(snapshot)
           leaderboard == [i \in 1..Len(calls) |->
                              LeaderboardEntry(calls[i].doc, calls[i].index)]
       IN Respond(s, [Reply(r, 200, "") EXCEPT !.leaderboard = leaderboard])
    /\ UNCHANGED <<Store, Env>>

\* the count without the filter on isActivated
SizeAbove_AnyAccount(field, value) ==
    Cardinality({w \in Wallets :
                    accounts[w].exists /\ Field(accounts[w], field) > value})

\* where('isActivated', '==', true).where(field, '>', value): snapshot.size
SizeAbove(field, value) ==
    Cardinality({w \in ActivatedAccounts : Field(accounts[w], field) > value})

UserRankingsArrive(s, walletAddress) ==
    /\ Arrives(s)
    /\ LET r == [Idle EXCEPT !.kind = "user-rankings",
                             !.walletAddress = walletAddress]
           accountData == accounts[walletAddress]
       IN IF ~accountData.exists
          THEN Reject(s, r, 404, "Account not found")
          ELSE IF ~accountData.isActivated
               THEN Reject(s, r, 400, "Account is not activated")
               ELSE Proceed(s, [r EXCEPT
                        !.pc = "balance",
                        !.enbBalance = JsOr(accountData.enbBalance, 0),
                        !.totalEarned = JsOr(accountData.totalEarned, 0),
                        !.consecutiveDays = JsOr(accountData.consecutiveDays, 0)])
    /\ UNCHANGED Env

UserRankingsBalance(s) ==
    /\ Running(s, "user-rankings", "balance")
    /\ Proceed(s, [reqs[s] EXCEPT
           !.pc = "earnings",
           !.balanceRank = SizeAbove("enbBalance", reqs[s].enbBalance) + 1])
    /\ UNCHANGED Env

UserRankingsEarnings(s) ==
    /\ Running(s, "user-rankings", "earnings")
    /\ Proceed(s, [reqs[s] EXCEPT
           !.pc = "streak",
           !.earningsRank = SizeAbove("totalEarned", reqs[s].totalEarned) + 1])
    /\ UNCHANGED Env

UserRankingsStreak(s) ==
    /\ Running(s, "user-rankings", "streak")
    /\ LET r == reqs[s]
           streakRank == SizeAbove("consecutiveDays", r.consecutiveDays) + 1
       IN Respond(s, [Reply(r, 200, "") EXCEPT !.rankings =
              [balance |-> [rank |-> r.balanceRank, value |-> r.enbBalance],
               earnings |-> [rank |-> r.earningsRank, value |-> r.totalEarned],
               streak |-> [rank |-> streakRank, value |-> r.consecutiveDays]]])
    /\ UNCHANGED <<Store, Env>>

(***************************************************************************)
(* A store or network failure: the pending await rejects, the handler's    *)
(* catch block answers 500 and nothing is written                          *)
(***************************************************************************)
FailureMessage(kind) ==
    CASE kind = "create-account" -> "Failed to create account"
      [] kind = "create-default-user" -> "Failed to create default user"
      [] kind = "activate-account" -> "Failed to activate account"
      [] kind = "daily-claim" -> "Failed to process daily claim"
      [] kind = "checkin" -> "Failed to check in"
      [] kind = "user-rankings" -> "Failed to fetch user rankings"
      [] kind = "update-balance" -> "Failed to update balance"
      [] OTHER -> "Failed to update membership level"

StoreFailure(s) ==
    /\ reqs[s].pc # "idle"
    /\ Respond(s, Reply(reqs[s], 500, FailureMessage(reqs[s].kind)))
    /\ UNCHANGED <<nreq, Store, Env>>

(***************************************************************************)
(* contracts/src/EnbMiniApp.sol (the revision with dailyClaim).  Token     *)
(* amounts are in ENB (10**18 base units), block time in hours.  A call    *)
(* that reverts leaves the storage of the contract and of the token as it  *)
(* was; chain.error is the error the last call reverted with, Missing when *)
(* it succeeded; chain.claimedAt is the history of each user's last        *)
(* successful dailyClaim                                                   *)
(***************************************************************************)
Users == {"u1", "u2"}
Owner == "owner"
Contract == "contract"
Holders == Users \cup {Owner, Contract}
\* the addresses that call the functions of the users
Callers == Users \cup {Owner}

\* enum MembershipLevel { Based, SuperBased, Legendary }
Based == 0
SuperBased == 1
Legendary == 2
MembershipLevel == {Based, SuperBased, Legendary}

DAILY_CLAIM_COOLDOWN == 24

\* the constructor's levelConfigs
levelConfigs ==
    [l \in MembershipLevel |->
        CASE l = Based -> [dailyClaimYield |-> 5, upgradeRequirement |-> 0]
          [] l = SuperBased -> [dailyClaimYield |-> 10, upgradeRequirement |-> 5000]
          [] OTHER -> [dailyClaimYield |-> 15, upgradeRequirement |-> 15000]]

\* a slot of userAccounts that was never written (accountCreatedAt, which no
\* function reads, is left out)
NoUserAccount ==
    [exists |-> FALSE, membershipLevel |-> Based, lastDailyClaimTime |-> 0,
     totalDailyClaims |-> 0, totalYieldClaimed |-> 0]

\* the chain after the constructor, the token holding balanceOf, at block
\* time timestamp
Constructed(balanceOf, timestamp) ==
    [userAccounts |-> [u \in Users |-> NoUserAccount],
     balanceOf |-> balanceOf, paused |-> FALSE, timestamp |-> timestamp,
     error |-> Missing, claimedAt |-> [u \in Users |-> 0]]

\* the transaction reverts with error
Revert(error) ==
    chain' = [chain EXCEPT !.error = error]

\* the transaction succeeds and leaves the chain as c
Succeed(c) ==
    chain' = [c EXCEPT !.error = Missing]

\* enbToken.transfer / transferFrom of amount: the balances afterwards
Transferred(from, to, amount) ==
    [h \in Holders |->
        IF from = to THEN chain.balanceOf[h]
        ELSE IF h = from THEN chain.balanceOf[h] - amount
        ELSE IF h = to THEN chain.balanceOf[h] + amount
        ELSE chain.balanceOf[h]]

\* whenNotPaused alone
Modifiers_AnyCaller(sender, user) ==
    IF chain.paused THEN "EnforcedPause" ELSE Missing

\* the modifiers whenNotPaused and onlySelf(user), in the order of the
\* function headers: the error they revert with, Missing when they pass
Modifiers(sender, user) ==
    IF chain.paused THEN "EnforcedPause"
    ELSE IF sender # user THEN "OnlySelfAllowed"
    ELSE Missing

createAccount(sender, user) ==
    /\ IF Modifiers(sender, user) # Missing
       THEN Revert(Modifiers(sender, user))
       ELSE IF chain.userAccounts[user].exists
            THEN Revert("AccountAlreadyExists")
            ELSE Succeed([chain EXCEPT !.userAccounts[user] =
                         [NoUserAccount EXCEPT !.exists = TRUE]])
    /\ UNCHANGED <<nreq, Store, now, revision, claimed, reqs, resp, client>>

\* the cooldown is over an hour early
OnCooldown_HourShort(lastDailyClaimTime, timestamp) ==
    lastDailyClaimTime + DAILY_CLAIM_COOLDOWN - 1 > timestamp

\* account.lastDailyClaimTime + DAILY_CLAIM_COOLDOWN > block.timestamp
OnCooldown(lastDailyClaimTime, timestamp) ==
    lastDailyClaimTime + DAILY_CLAIM_COOLDOWN > timestamp

\* success is what enbToken.transfer returns
dailyClaim(sender, user, success) ==
    /\ LET account == chain.userAccounts[user]
           yieldAmount == levelConfigs[account.membershipLevel].dailyClaimYield
           Fail(error) == Revert(error)
       IN IF Modifiers(sender, user) # Missing
          THEN Fail(Modifiers(sender, user))
          ELSE IF ~account.exists
          THEN Fail("AccountDoesNotExist")
          ELSE IF OnCooldown(account.lastDailyClaimTime, chain.timestamp)
          THEN Fail("DailyClaimOnCooldown")
          ELSE IF chain.balanceOf[Contract] < yieldAmount
          THEN Fail("InsufficientContractBalance")
          ELSE IF ~success
          THEN Fail("TransferFailed")
          ELSE Succeed([chain EXCEPT
                       !.userAccounts[user] =
                           [@ EXCEPT !.lastDailyClaimTime = chain.timestamp,
                                     !.totalDailyClaims = @ + 1,
                                     !.totalYieldClaimed = @ + yieldAmount],
                       !.balanceOf = Transferred(Contract, user, yieldAmount),
                       !.claimedAt[user] = chain.timestamp])
    /\ UNCHANGED <<nreq, Store, now, revision, claimed, reqs, resp, client>>

\* any target level passes
InvalidTarget_Never(targetLevel, membershipLevel) ==
    FALSE

\* targetLevel <= account.membershipLevel
InvalidTarget(targetLevel, membershipLevel) ==
    targetLevel <= membershipLevel

\* success is what enbToken.transferFrom returns (false, or a revert of the
\* token, when the user has not approved the contract)
upgradeMembership(sender, user, targetLevel, success) ==
    /\ LET account == chain.userAccounts[user]
           requiredTokens == levelConfigs[targetLevel].upgradeRequirement
           userBalance == chain.balanceOf[user]
           Fail(error) == Revert(error)
       IN IF Modifiers(sender, user) # Missing
          THEN Fail(Modifiers(sender, user))
          ELSE IF ~account.exists
          THEN Fail("AccountDoesNotExist")
          ELSE IF InvalidTarget(targetLevel, account.membershipLevel)
          THEN Fail("InvalidMembershipLevel")
          ELSE IF userBalance < requiredTokens
          THEN Fail("InsufficientTokensForUpgrade")
          ELSE IF ~success
          THEN Fail("TransferFailed")
          ELSE Succeed([chain EXCEPT
                       !.userAccounts[user].membershipLevel = targetLevel,
                       !.balanceOf = Transferred(user, Contract, requiredTokens)])
    /\ UNCHANGED <<nreq, Store, now, revision, claimed, reqs, resp, client>>

withdrawAllTokens(sender) ==
    /\ LET balance == chain.balanceOf[Contract]
           Fail(error) == Revert(error)
       IN IF sender # Owner
          THEN Fail("OwnableUnauthorizedAccount")
          ELSE IF balance = 0
          THEN Fail("InvalidAmount")
          ELSE Succeed([chain EXCEPT
                       !.balanceOf = Transferred(Contract, Owner, balance)])
    /\ UNCHANGED <<nreq, Store, now, revision, claimed, reqs, resp, client>>

pause(sender) ==
    /\ IF sender # Owner
       THEN Revert("OwnableUnauthorizedAccount")
       ELSE IF chain.paused
            THEN Revert("EnforcedPause")
            ELSE Succeed([chain EXCEPT !.paused = TRUE])
    /\ UNCHANGED <<nreq, Store, now, revision, claimed, reqs, resp, client>>

unpause(sender) ==
    /\ IF sender # Owner
       THEN Revert("OwnableUnauthorizedAccount")
       ELSE IF ~chain.paused
            THEN Revert("ExpectedPause")
            ELSE Succeed([chain EXCEPT !.paused = FALSE])
    /\ UNCHANGED <<nreq, Store, now, revision, claimed, reqs, resp, client>>

\* the next blocks are mined hours later
Mine(hours) ==
    /\ chain.timestamp + hours <= DAILY_CLAIM_COOLDOWN + MaxHours
    /\ chain' = [chain EXCEPT !.timestamp = @ + hours, !.error = Missing]
    /\ UNCHANGED <<nreq, Store, now, revision, claimed, reqs, resp, client>>

\* the chain of the specifications of the server, which makes no call
Undeployed ==
    Constructed([h \in Holders |-> 0], DAILY_CLAIM_COOLDOWN)

(***************************************************************************)
(* The mini app (miniapp/app): the state of the Account component and of   *)
(* the page component.  posted and hashes are history: the POST            *)
(* /api/daily-claim requests sent and the transaction hashes returned      *)
(***************************************************************************)
\* the Account component as useState initialises it, for connected address
\* and loaded profile.lastDailyClaimTime
AccountMounted(address, lastDailyClaimTime) ==
    [address |-> address, lastDailyClaimTime |-> lastDailyClaimTime,
     canClaim |-> FALSE, dailyClaimLoading |-> FALSE,
     showDailyClaimModal |-> FALSE, alerted |-> FALSE, pc |-> "idle",
     ok |-> FALSE,
     posted |-> 0, hashes |-> 0]

\* the page component as useState initialises it
PageMounted(address) ==
    [address |-> address, profileState |-> "loading", userProfile |-> Missing,
     isActivated |-> FALSE, fetching |-> {}, fetched |-> 0]

\* the mini app of the specifications of the server and of the contract,
\* which nobody has opened
NotOpened ==
    [account |-> AccountMounted(Missing, Null), page |-> PageMounted(Missing)]

\* what the mini app leaves alone
Backend == <<nreq, Store, now, revision, claimed, chain, reqs, resp>>

\* calculateTimeLeft: the canClaim it sets at time t
calculateTimeLeft(lastDailyClaimTime, t) ==
    IF lastDailyClaimTime = Null THEN TRUE
    ELSE (lastDailyClaimTime + DayMs) - t <= 0

\* the countdown interval, and the first computation after the profile load
Countdown ==
    /\ client' = [client EXCEPT !.account.canClaim =
           calculateTimeLeft(client.account.lastDailyClaimTime, now)]
    /\ UNCHANGED Backend

\* the flow ends and dailyClaimLoading stays set
Finally_StillLoading(a) ==
    [a EXCEPT !.pc = "idle"]

\* finally { setDailyClaimLoading(false) }: the flow ends
Finally(a) ==
    [a EXCEPT !.pc = "idle", !.dailyClaimLoading = FALSE]

\* the click on the claim button: the guard of handleDailyClaim, then
\* setDailyClaimLoading(true) and the call of the contract
handleDailyClaim ==
    /\ client.account.pc = "idle"
    /\ client.account.hashes < MaxClaims
    /\ IF client.account.address = Missing \/ ~client.account.canClaim
       THEN client' = client
       ELSE client' = [client EXCEPT !.account.dailyClaimLoading = TRUE,
                                     !.account.pc = "writeContract"]
    /\ UNCHANGED Backend

\* writeContractAsync resolves with the transaction hash and the handler
\* sends POST /api/daily-claim
WriteContractResolved ==
    /\ client.account.pc = "writeContract"
    /\ client' = [client EXCEPT !.account.hashes = @ + 1,
                                !.account.posted = @ + 1,
                                !.account.pc = "fetch"]
    /\ UNCHANGED Backend

\* catch { alert('Daily claim failed. Please try again.') } finally {...}
Caught(a) ==
    Finally([a EXCEPT !.alerted = TRUE])

\* writeContractAsync rejects (the wallet refuses, the call reverts)
WriteContractRejected ==
    /\ client.account.pc = "writeContract"
    /\ client' = [client EXCEPT !.account = Caught(@)]
    /\ UNCHANGED Backend

\* the fetch resolves with a response, res.ok being ok, and res.json() is
\* awaited
FetchResolved(ok) ==
    /\ client.account.pc = "fetch"
    /\ client' = [client EXCEPT !.account.ok = ok, !.account.pc = "json"]
    /\ UNCHANGED Backend

\* res.json() resolves: a response that is not ok throws, a response that is
\* ok opens the modal and awaits refreshProfile()
JsonResolved ==
    /\ client.account.pc = "json"
    /\ client' = [client EXCEPT !.account =
           IF ~client.account.ok THEN Caught(@)
           ELSE [@ EXCEPT !.showDailyClaimModal = TRUE, !.pc = "refreshProfile"]]
    /\ UNCHANGED Backend

\* the fetch or res.json() rejects
ResponseRejected ==
    /\ client.account.pc \in {"fetch", "json"}
    /\ client' = [client EXCEPT !.account = Caught(@)]
    /\ UNCHANGED Backend

\* refreshProfile() returns (it catches its own errors): with updated the
\* profile is the one the server now holds, claimed age ticks ago
RefreshProfileReturned(updated, age) ==
    /\ client.account.pc = "refreshProfile"
    /\ client' = [client EXCEPT !.account =
           IF updated
           THEN Finally([@ EXCEPT
                    !.lastDailyClaimTime = now - age,
                    !.canClaim = calculateTimeLeft(now - age, now)])
           ELSE Finally(@)]
    /\ UNCHANGED Backend

(***************************************************************************)
(* The page component: the profile of the connected address is fetched     *)
(* from GET /api/profile/:walletAddress and decides the view               *)
(***************************************************************************)
\* GET /api/profile/:walletAddress: 404 without a document, else the profile
Profile(walletAddress) ==
    IF ~accounts[walletAddress].exists
    THEN [status |-> 404, walletAddress |-> Missing, isActivated |-> FALSE]
    ELSE [status |-> 200, walletAddress |-> walletAddress,
          isActivated |-> accounts[walletAddress].isActivated]

\* fetchUserProfile up to its await: the request for walletAddress is sent
fetchUserProfile(p, walletAddress) ==
    IF walletAddress = Missing
    THEN [p EXCEPT !.userProfile = Missing, !.isActivated = FALSE,
                   !.profileState = "not-found"]
    ELSE [p EXCEPT !.profileState = "loading",
                   !.fetching = @ \cup {walletAddress},
                   !.fetched = @ + 1]

\* useAccount reports another address and the effect on [address] runs
AddressChanged(address) ==
    /\ address # client.page.address
    /\ address # Missing => client.page.fetched < MaxFetches
    /\ client' = [client EXCEPT !.page =
           IF address # Missing
           THEN fetchUserProfile([@ EXCEPT !.address = address], address)
           ELSE [@ EXCEPT !.address = address, !.userProfile = Missing,
                          !.isActivated = FALSE, !.profileState = "loading"]]
    /\ UNCHANGED Backend

\* refreshUserProfile, and the Try Again and Retry buttons
refreshUserProfile ==
    /\ client.page.address # Missing
    /\ client.page.fetched < MaxFetches
    /\ client' = [client EXCEPT !.page =
                     fetchUserProfile(@, client.page.address)]
    /\ UNCHANGED Backend

\* the fetch of walletAddress resolves: 404 clears the profile, any other
\* answer that is ok becomes the held profile
ProfileFetched(walletAddress) ==
    /\ walletAddress \in client.page.fetching
    /\ LET response == Profile(walletAddress)
           p == [client.page EXCEPT !.fetching = @ \ {walletAddress}]
       IN client' = [client EXCEPT !.page =
              IF response.status = 404
              THEN [p EXCEPT !.userProfile = Missing, !.isActivated = FALSE,
                             !.profileState = "not-found"]
              ELSE [p EXCEPT !.userProfile = response.walletAddress,
                             !.isActivated = response.isActivated,
                             !.profileState = "found"]]
    /\ UNCHANGED Backend

\* the fetch rejects or the answer is not ok: the catch block
ProfileFailed(walletAddress) ==
    /\ walletAddress \in client.page.fetching
    /\ client' = [client EXCEPT !.page =
           [@ EXCEPT !.fetching = @ \ {walletAddress},
                     !.userProfile = Missing, !.isActivated = FALSE,
                     !.profileState = "error"]]
    /\ UNCHANGED Backend

\* the view renderMainComponent returns
renderMainComponent(p) ==
    IF p.address = Missing THEN "Connecting"
    ELSE IF p.profileState = "loading" THEN "Loading"
    ELSE IF p.profileState = "error" THEN "Error"
    ELSE IF p.profileState = "not-found" THEN "Create"
    ELSE IF p.userProfile = Missing THEN "StateError"
    ELSE IF p.isActivated THEN "Account"
    ELSE "Create"

(***************************************************************************)
(* The activation specification: a seeded inviter w1 whose code has been   *)
(* used by some earlier wallets, an unactivated account w2, an             *)
(* unregistered wallet w3, and any interleaving of create-default-user and *)
(* activate-account requests                                               *)
(***************************************************************************)
EarlierUsage(code, inviter, n) ==
    SetToBag({UsageLog(code, EarlierWallets[i], inviter, 0) : i \in 1..n})

\* w1 as create-default-user left it (m its maxUses) or as an account made by
\* create-account and activated by an earlier inviter, n uses of its code later
SeededInviters ==
    {[DefaultUser("c1", m, 0) EXCEPT !.currentInvitationUses = n] :
        m \in 0..MaxUsesArg, n \in 0..MaxUsesArg}
    \cup
    {[NewAccount("c1") EXCEPT !.isActivated = TRUE, !.activatedAt = 0,
                              !.activatedBy = "c0", !.inviterWallet = "u0",
                              !.currentInvitationUses = n] :
        n \in (DefaultMaxUses - MaxRemaining)..DefaultMaxUses}

InitActivation ==
    /\ nreq = 0
    /\ now = 0
    /\ revision = "daily-claim"
    /\ \E a \in SeededInviters :
          /\ a.currentInvitationUses <= JsOr(a.maxInvitationUses, DefaultMaxUses)
          /\ a.maxInvitationUses = SeededMaxUses => a.currentInvitationUses = 0
          /\ accounts = [w \in Wallets |-> IF w = "w1" THEN a
                                           ELSE IF w = "w2" THEN NewAccount("c2")
                                           ELSE NoDoc]
          /\ usage = EarlierUsage("c1", "w1", a.currentInvitationUses)
                     (+) (IF a.activatedBy = Missing THEN EmptyBag
                          ELSE SetToBag({UsageLog(a.activatedBy, "w1", a.inviterWallet, 0)}))
    /\ transactions = EmptyBag
    /\ claimed = {}
    /\ chain = Undeployed
    /\ client = NotOpened
    /\ reqs = [s \in Slots |-> Idle]
    /\ resp = NoResp

NextActivation ==
    \E s \in Slots :
        \/ \E w \in Wallets, c \in Codes, m \in 0..MaxUsesArg :
              CreateDefaultUserArrive(s, w, c, m)
        \/ CreateDefaultUserSet(s)
        \/ \E w \in Wallets, c \in Codes \cup {Missing} :
              ActivateArrive(s, w, c)
        \/ ActivateQueryInviter(s)
        \/ ActivateQueryUsage(s)
        \/ ActivateCommit(s)
        \/ StoreFailure(s)

SpecActivation ==
    InitActivation /\ [][NextActivation]_vars

\* a request of one of these kinds is in flight
InFlight(kinds) ==
    \E s \in Slots : reqs[s].kind \in kinds

\* the same requests, where the activate-account attempts interleave with one
\* another but never with a request that replaces an account document
SeedArrive(s, walletAddress, invitationCode, maxUses) ==
    /\ ~InFlight({"activate-account"})
    /\ CreateDefaultUserArrive(s, walletAddress, invitationCode, maxUses)

AttemptArrive(s, walletAddress, invitationCode) ==
    /\ ~InFlight({"create-default-user"})
    /\ ActivateArrive(s, walletAddress, invitationCode)

NextAttempts ==
    \E s \in Slots :
        \/ \E w \in Wallets, c \in Codes, m \in 0..MaxUsesArg :
              SeedArrive(s, w, c, m)
        \/ CreateDefaultUserSet(s)
        \/ \E w \in Wallets, c \in Codes \cup {Missing} :
              AttemptArrive(s, w, c)
        \/ ActivateQueryInviter(s)
        \/ ActivateQueryUsage(s)
        \/ ActivateCommit(s)
        \/ StoreFailure(s)

SpecAttempts ==
    InitActivation /\ [][NextAttempts]_vars

(***************************************************************************)
(* Properties of activation                                                *)
(***************************************************************************)
\* C1: for every account, currentInvitationUses (0 when unset) never exceeds
\* that account's maxInvitationUses (5 when unset), after any sequence of
\* activate-account attempts
C1_UsesWithinMax ==
    \A w \in Wallets :
        accounts[w].exists =>
            JsOr(accounts[w].currentInvitationUses, 0)
                <= JsOr(accounts[w].maxInvitationUses, DefaultMaxUses)

\* an activation has taken the last use of the inviter's code
C1_LastUseTaken ==
    /\ resp.kind = "activate-account"
    /\ resp.status = 200
    /\ resp.remainingUses = 0
    /\ accounts[resp.inviterWallet].currentInvitationUses
          = JsOr(accounts[resp.inviterWallet].maxInvitationUses, DefaultMaxUses)

\* C4: the commit of an activation either applies all three writes (the
\* account is activated and stamped with activatedAt, activatedBy and
\* inviterWallet, the inviter's currentInvitationUses is the count read plus
\* one, one usage record is appended) and answers 200, or it fails, answers
\* 500 and leaves both collections as they were
C4_AllOrNothing ==
    [][\A s \in Slots :
          LET r == reqs[s]
          IN (r.kind = "activate-account" /\ r.pc = "commit" /\ reqs'[s] # r) =>
                \/ /\ resp'.status = 200
                   /\ accounts'[r.walletAddress].isActivated
                   /\ accounts'[r.walletAddress].activatedAt = r.at
                   /\ accounts'[r.walletAddress].activatedBy = r.invitationCode
                   /\ accounts'[r.walletAddress].inviterWallet = r.inviterWallet
                   /\ accounts'[r.inviterWallet].currentInvitationUses = r.currentUses + 1
                   /\ \A w \in Wallets \ {r.walletAddress, r.inviterWallet} :
                         accounts'[w] = accounts[w]
                   /\ usage' = usage (+) SetToBag({UsageLog(r.invitationCode,
                                   r.walletAddress, r.inviterWallet, r.at)})
                \/ /\ resp'.status = 500
                   /\ accounts' = accounts
                   /\ usage' = usage]_vars

\* an activation has committed: all three writes are in the store
C4_Committed ==
    /\ resp.kind = "activate-account"
    /\ resp.status = 200
    /\ accounts[resp.walletAddress].isActivated
    /\ accounts[resp.inviterWallet].currentInvitationUses > 0
    /\ \E u \in BagToSet(usage) :
          /\ u.usedBy = resp.walletAddress
          /\ u.invitationCode = accounts[resp.walletAddress].activatedBy
          /\ u.inviterWallet = resp.inviterWallet

\* C5: an attempt of a registered, unactivated wallet that presents a code
\* whose (activated) owner has currentInvitationUses >= maxInvitationUses,
\* the default 5 standing in for an unset maximum, is rejected with
\* 'Invitation code usage limit exceeded' and writes nothing; and an
\* account made by create-default-user without maxUses gets the maximum 105
C5_LimitEnforced ==
    [][\A s \in Slots :
          LET r == reqs[s]
              owners == AccountsWithCode(r.invitationCode)
          IN /\ (/\ r.kind = "activate-account" /\ r.pc = "queryInviter"
                 /\ reqs'[s] # r /\ resp'.status # 500
                 /\ owners # {}
                 /\ accounts[FirstOf(owners)].isActivated
                 /\ JsOr(accounts[FirstOf(owners)].currentInvitationUses, 0)
                       >= JsOr(accounts[FirstOf(owners)].maxInvitationUses, 5))
                => /\ resp' = Reply(r, 400, "Invitation code usage limit exceeded")
                   /\ accounts' = accounts
                   /\ usage' = usage
             /\ (/\ r.kind = "create-default-user" /\ r.pc = "set"
                 /\ reqs'[s] # r /\ resp'.status = 201
                 /\ r.maxUses = 0)
                => accounts'[r.walletAddress].maxInvitationUses = 105]_vars

\* an attempt was rejected because the code's owner had used up its uses
C5_LimitHit ==
    /\ resp.kind = "activate-account"
    /\ resp.msg = "Invitation code usage limit exceeded"
    /\ \E w \in Wallets :
          /\ accounts[w].isActivated
          /\ accounts[w].currentInvitationUses
                >= JsOr(accounts[w].maxInvitationUses, 5)

\* C6: an attempt gets past the lookup of the inviter only if the presented
\* code is the invitationCode of an existing, activated account, which the
\* handler takes for the inviter; a code owned by nobody is rejected with
\* 'Invalid invitation code', a code owned by an unactivated account with
\* 'Invitation code is from an inactive account'; and an activation succeeds
\* only by the commit of an attempt that got past that lookup
C6_InviterRequired ==
    [][\A s \in Slots :
          LET r == reqs[s]
              owners == AccountsWithCode(r.invitationCode)
          IN /\ (/\ r.kind = "activate-account" /\ r.pc = "queryInviter"
                 /\ reqs'[s] # r /\ resp'.status # 500)
                => /\ owners = {} =>
                         resp' = Reply(r, 400, "Invalid invitation code")
                   /\ (owners # {} /\ ~accounts[FirstOf(owners)].isActivated) =>
                         resp' = Reply(r, 400, "Invitation code is from an inactive account")
                   /\ reqs'[s].pc # "idle" =>
                         /\ reqs'[s].pc = "queryUsage"
                         /\ reqs'[s].inviterWallet \in owners
                         /\ accounts[reqs'[s].inviterWallet].exists
                         /\ accounts[reqs'[s].inviterWallet].isActivated
                         /\ accounts[reqs'[s].inviterWallet].invitationCode = r.invitationCode
             /\ (r.kind = "activate-account" /\ reqs'[s].pc \in {"queryUsage", "commit"})
                => r.pc \in {"queryInviter", "queryUsage", "commit"}
             /\ (/\ r.kind = "activate-account" /\ reqs'[s] # r
                 /\ resp'.status = 200)
                => /\ r.pc = "commit"
                   /\ r.inviterWallet \in Wallets
                   /\ accounts'[r.inviterWallet].exists]_vars

\* an account was activated with the code of an activated inviter
C6_ActivatedByInviter ==
    /\ resp.kind = "activate-account"
    /\ resp.status = 200
    /\ accounts[resp.inviterWallet].isActivated
    /\ accounts[resp.inviterWallet].invitationCode
          = accounts[resp.walletAddress].activatedBy

\* C7: the usage ledger holds at most one record for any (invitationCode,
\* usedBy) pair
C7_OneRecordPerPair ==
    \A u, v \in BagToSet(usage) :
        (u.invitationCode = v.invitationCode /\ u.usedBy = v.usedBy) =>
            /\ u = v
            /\ CopiesIn(u, usage) = 1

\* C8: a rejected activation attempt leaves both collections as they were;
\* a well-formed attempt of an unregistered wallet gets 404 'Account not
\* found', of an already activated one 400 'Account is already activated',
\* and every other domain failure gets 400
C8_RejectionWritesNothing ==
    [][(resp'.kind = "activate-account" /\ resp'.status # 200) =>
          LET w == resp'.walletAddress
              wellFormed == nreq' # nreq /\ resp'.msg # "Missing required fields"
          IN /\ accounts' = accounts
             /\ usage' = usage
             /\ resp'.status \in {400, 404, 500}
             /\ (wellFormed /\ ~accounts[w].exists) =>
                   (resp'.status = 404 /\ resp'.msg = "Account not found")
             /\ (wellFormed /\ accounts[w].exists /\ accounts[w].isActivated) =>
                   (resp'.status = 400 /\ resp'.msg = "Account is already activated")
             /\ resp'.status = 404 => (wellFormed /\ ~accounts[w].exists)
             /\ resp'.status = 500 => resp'.msg = "Failed to activate account"
             /\ resp'.msg \in {"Invalid invitation code",
                               "Invitation code is from an inactive account",
                               "Invitation code usage limit exceeded",
                               "You have already used this invitation code"}
                   => resp'.status = 400]_vars

\* an attempt of an unregistered wallet was turned away
C8_UnregisteredRejected ==
    /\ resp.kind = "activate-account"
    /\ resp.status = 404
    /\ ~accounts[resp.walletAddress].exists

(***************************************************************************)
(* The claim specification: an activated account w1 with any streak and    *)
(* any time of last claim, an unactivated account w2, a running clock, and *)
(* any interleaving of the claim requests of the deployed revision         *)
(***************************************************************************)
\* the clock starts with the third day and stops at the end of the last one
FirstTick == 2 * TicksPerDay
LastTick == (3 + MaxDays) * TicksPerDay - 1

Tick ==
    /\ now < LastTick
    /\ now' = now + 1
    /\ resp' = NoResp
    /\ UNCHANGED <<nreq, Store, revision, reqs, claimed, chain, client>>

\* the history of a wallet whose last claim was at time last and ended a
\* streak of that many days
ClaimedBefore(w, last, consecutiveDays) ==
    IF last = Null THEN {}
    ELSE {<<w, CalendarDay(last) - k>> : k \in 0..(consecutiveDays - 1)}

\* w1 after create-default-user, update-membership and its claims so far
Claimants ==
    {[DefaultUser("c1", 0, 0) EXCEPT !.membershipLevel = level,
                                     !.lastDailyClaimTime = last,
                                     !.consecutiveDays = days] :
        level \in Levels, last \in {Null} \cup 0..FirstTick, days \in 0..MaxStreak}

InitClaim ==
    /\ nreq = 0
    /\ now = FirstTick
    /\ revision \in Revisions
    /\ \E a \in Claimants :
          /\ (a.lastDailyClaimTime = Null) = (a.consecutiveDays = 0)
          /\ accounts = [w \in Wallets |->
                IF w = "w1"
                THEN IF revision = "daily-claim" THEN a
                     ELSE [a EXCEPT !.lastDailyClaimTime = Null,
                                    !.lastCheckIn = a.lastDailyClaimTime]
                ELSE IF w = "w2" THEN NewAccount("c2")
                ELSE NoDoc]
          /\ claimed = ClaimedBefore("w1", a.lastDailyClaimTime, a.consecutiveDays)
    /\ chain = Undeployed
    /\ client = NotOpened
    /\ usage = EmptyBag
    /\ transactions = EmptyBag
    /\ reqs = [s \in Slots |-> Idle]
    /\ resp = NoResp

NextClaim ==
    \/ Tick
    \/ \E s \in Slots :
        \/ \E w \in Wallets \cup {Missing}, tx \in {"0xtx", Missing} :
              DailyClaimArrive(s, w, tx)
        \/ DailyClaimUpdate(s)
        \/ \E w \in Wallets \cup {Missing} : CheckinArrive(s, w)
        \/ CheckinUpdate(s)
        \/ StoreFailure(s)

SpecClaim ==
    InitClaim /\ [][NextClaim]_vars

(***************************************************************************)
(* Properties of the daily claim                                           *)
(***************************************************************************)
\* the time of its last claim that the deployed revision keeps for wallet w
LastClaim(w) ==
    IF revision = "daily-claim" THEN accounts[w].lastDailyClaimTime
    ELSE accounts[w].lastCheckIn

\* this step is the arrival, in slot s, of a well-formed claim request for
\* the activated account of wallet w
ClaimArrival(s, w) ==
    /\ nreq' # nreq
    /\ reqs[s].pc = "idle"
    /\ \A t \in Slots : t < s => reqs[t].pc # "idle"
    /\ \/ resp'.kind \in {"daily-claim", "checkin"} /\ resp'.walletAddress = w
       \/ reqs'[s].kind \in {"daily-claim", "checkin"} /\ reqs'[s].walletAddress = w
    /\ resp'.msg \notin {"Missing wallet address or transaction hash",
                         "Missing wallet address"}
    /\ accounts[w].exists
    /\ accounts[w].isActivated

\* this step is the update of the claim in slot s, and it grants the claim
ClaimGranted(s) ==
    /\ reqs[s].kind \in {"daily-claim", "checkin"}
    /\ reqs[s].pc = "update"
    /\ reqs'[s] # reqs[s]
    /\ resp'.status = 200

\* a reward base times the membership factor 1, 1.5 or 2, floored
Scaled(base, membershipLevel) ==
    CASE membershipLevel = "Based" -> base
      [] membershipLevel = "Super Based" -> (3 * base) \div 2
      [] membershipLevel = "Legendary" -> 2 * base

\* the rejection of a claim for a wallet whose stored last claim is of today
SameDayRejection(alreadyClaimed, alreadyCheckedIn) ==
    \A s \in Slots, w \in Wallets :
        /\ ClaimGranted(s) /\ reqs[s].walletAddress = w
           => /\ LastClaim(w)' = reqs[s].at
              /\ CalendarDay(reqs[s].at) <= CalendarDay(now)
        /\ (/\ ClaimArrival(s, w)
            /\ LastClaim(w) # Null
            /\ CalendarDay(LastClaim(w)) = CalendarDay(now))
           => /\ resp'.walletAddress = w
              /\ resp'.status = 400
              /\ resp'.msg = IF resp'.kind = "daily-claim" THEN alreadyClaimed
                             ELSE alreadyCheckedIn
              /\ reqs'[s] = Idle
              /\ accounts' = accounts
              /\ usage' = usage

C3_ClaimsSerialized ==
    [][\A s \in Slots :
          (ClaimGranted(s) /\ reqs[s].kind = "daily-claim") =>
              LET r == reqs[s]
                  w == r.walletAddress
              IN /\ ~(/\ LastClaim(w) # Null
                      /\ CalendarDay(LastClaim(w)) = CalendarDay(r.at))
                 /\ accounts'[w].enbBalance = accounts[w].enbBalance + r.finalReward
                 /\ accounts'[w].totalEarned = accounts[w].totalEarned + r.finalReward]_vars

\* C9: a claim for a wallet whose stored last claim is of the previous
\* calendar day goes on with consecutiveDays = the stored consecutiveDays + 1
\* and the reward floor(10 * min(that streak, 5) * multiplier), for every
\* membership level; when it is granted these are stored and returned
C9_NextDayClaim ==
    [][\A s \in Slots, w \in Wallets :
          /\ (/\ ClaimArrival(s, w)
              /\ LastClaim(w) # Null
              /\ CalendarDay(LastClaim(w)) = CalendarDay(now) - 1)
             => /\ reqs'[s].pc = "update"
                /\ reqs'[s].consecutiveDays = accounts[w].consecutiveDays + 1
                /\ reqs'[s].finalReward =
                       Scaled(10 * Min(accounts[w].consecutiveDays + 1, 5),
                              accounts[w].membershipLevel)
          /\ (/\ ClaimGranted(s) /\ reqs[s].walletAddress = w
              /\ reqs[s].consecutiveDays > 1)
             => /\ accounts'[w].consecutiveDays = reqs[s].consecutiveDays
                /\ resp'.consecutiveDays = reqs[s].consecutiveDays
                /\ resp'.reward = reqs[s].finalReward]_vars

\* a Super Based wallet's claim on the day after its last one was granted a
\* streak beyond the cap and the capped reward 10 * 5 * 1.5
C9_CappedStreakGranted ==
    /\ resp.status = 200
    /\ resp.kind \in {"daily-claim", "checkin"}
    /\ resp.consecutiveDays > 5
    /\ resp.reward = 75
    /\ accounts[resp.walletAddress].membershipLevel = "Super Based"
    /\ accounts[resp.walletAddress].consecutiveDays = resp.consecutiveDays

\* C10: a claim for a wallet with no stored last claim, or one of two or more
\* calendar days before, goes on with consecutiveDays = 1 and the reward
\* floor(10 * multiplier), which is 10 at level Based; when it is granted
\* these are stored and returned
C10_FirstOrLateClaim ==
    [][\A s \in Slots, w \in Wallets :
          /\ (/\ ClaimArrival(s, w)
              /\ \/ LastClaim(w) = Null
                 \/ CalendarDay(LastClaim(w)) <= CalendarDay(now) - 2)
             => /\ reqs'[s].pc = "update"
                /\ reqs'[s].consecutiveDays = 1
                /\ reqs'[s].finalReward = Scaled(10, accounts[w].membershipLevel)
                /\ accounts[w].membershipLevel = "Based" => reqs'[s].finalReward = 10
          /\ (/\ ClaimGranted(s) /\ reqs[s].walletAddress = w
              /\ reqs[s].consecutiveDays = 1)
             => /\ accounts'[w].consecutiveDays = 1
                /\ resp'.consecutiveDays = 1
                /\ resp'.reward = reqs[s].finalReward]_vars

\* a Based wallet's first claim was granted the reward 10
C10_FirstClaimGranted ==
    /\ resp.status = 200
    /\ resp.kind \in {"daily-claim", "checkin"}
    /\ resp.reward = 10
    /\ resp.consecutiveDays = 1
    /\ resp.newBalance = 10
    /\ accounts[resp.walletAddress].membershipLevel = "Based"
    /\ accounts[resp.walletAddress].consecutiveDays = 1
    /\ accounts[resp.walletAddress].totalEarned = 10

(***************************************************************************)
(* The membership specification: the accounts of the claim specification, *)
(* w1 at the level Based of every new account, and any interleaving of     *)
(* update-membership and claim requests at one time of the clock           *)
(***************************************************************************)
\* what a client may send as membershipLevel
LevelArgs == Levels \cup {"SuperBased", Missing}

InitMembership ==
    /\ InitClaim
    /\ accounts["w1"].membershipLevel = "Based"

NextMembership ==
    \E s \in Slots :
      \/ \E w \in Wallets, level \in LevelArgs :
            UpdateMembershipArrive(s, w, level, "0xtx")
      \/ UpdateMembershipUpdate(s)
      \/ \E w \in Wallets : DailyClaimArrive(s, w, "0xtx")
      \/ DailyClaimUpdate(s)
      \/ \E w \in Wallets : CheckinArrive(s, w)
      \/ CheckinUpdate(s)
      \/ StoreFailure(s)

SpecMembership ==
    InitMembership /\ [][NextMembership]_vars

\* C11: every account holds one of the levels Based, Super Based and
\* Legendary, update-membership stores no other level, and the reward of a
\* claim is its base reward 10 * min(streak, 5) times 1 for Based, 1.5 for
\* Super Based and 2 for Legendary, floored to an integer
C11_MultiplierTable ==
    [][/\ \A w \in Wallets :
             accounts'[w].exists =>
                 accounts'[w].membershipLevel \in {"Based", "Super Based", "Legendary"}
       /\ \A s \in Slots :
             (/\ reqs[s].kind = "update-membership" /\ reqs'[s] # reqs[s]
              /\ resp'.status = 200)
             => /\ reqs[s].membershipLevel \in {"Based", "Super Based", "Legendary"}
                /\ accounts'[reqs[s].walletAddress].membershipLevel
                      = reqs[s].membershipLevel
       /\ resp'.kind = "update-membership" /\ resp'.status # 200
             => accounts' = accounts
       /\ \A s \in Slots, w \in Wallets :
             (ClaimArrival(s, w) /\ reqs'[s].pc = "update")
             => reqs'[s].finalReward =
                   Scaled(10 * Min(reqs'[s].consecutiveDays, 5),
                          accounts[w].membershipLevel)]_vars

\* a wallet raised to Super Based by update-membership was granted the
\* reward 10 * 3 * 1.5 for the third day of its streak
C11_SuperBasedReward ==
    /\ resp.status = 200
    /\ resp.kind \in {"daily-claim", "checkin"}
    /\ resp.consecutiveDays = 3
    /\ resp.reward = 45
    /\ accounts[resp.walletAddress].membershipLevel = "Super Based"
    /\ accounts[resp.walletAddress].lastUpgradeAt # Null

(***************************************************************************)
(* The streak specification: the claim specification with the claim        *)
(* requests one after another, each answered before the next arrives       *)
(***************************************************************************)
DailyClaimInTurn(s, walletAddress) ==
    /\ ~InFlight({"daily-claim", "checkin"})
    /\ DailyClaimArrive(s, walletAddress, "0xtx")

CheckinInTurn(s, walletAddress) ==
    /\ ~InFlight({"daily-claim", "checkin"})
    /\ CheckinArrive(s, walletAddress)

NextStreak ==
    \/ Tick
    \/ \E s \in Slots :
        \/ \E w \in Wallets : DailyClaimInTurn(s, w)
        \/ DailyClaimUpdate(s)
        \/ \E w \in Wallets : CheckinInTurn(s, w)
        \/ CheckinUpdate(s)
        \/ StoreFailure(s)

SpecStreak ==
    InitClaim /\ [][NextStreak]_vars

\* the calendar days on which wallet w was granted a claim
DaysClaimed(w) ==
    {c[2] : c \in {d \in claimed : d[1] = w}}

\* the number of consecutive days, ending on day d, that are all in days
RunEndingOn(d, days) ==
    Cardinality({k \in 0..Cardinality(days) :
                    \A j \in 0..k : (d - j) \in days})

\* C12: after any sequence of granted claims, an account that has claimed
\* has its stored last claim on the latest day it claimed, and its
\* consecutiveDays is the number of consecutive calendar days ending on that
\* day on each of which it claimed, however long that run is; an account
\* that has not claimed has consecutiveDays 0
C12_StreakCountsDays ==
    \A w \in Wallets :
        IF DaysClaimed(w) = {}
        THEN accounts[w].consecutiveDays = 0 /\ LastClaim(w) = Null
        ELSE /\ LastClaim(w) # Null
             /\ \A d \in DaysClaimed(w) : d <= CalendarDay(LastClaim(w))
             /\ accounts[w].consecutiveDays
                   = RunEndingOn(CalendarDay(LastClaim(w)), DaysClaimed(w))

\* a claim was granted that took the streak past the cap of the multiplier
C12_StreakPastCap ==
    /\ resp.status = 200
    /\ resp.kind \in {"daily-claim", "checkin"}
    /\ resp.consecutiveDays > 5
    /\ resp.reward = 50
    /\ accounts[resp.walletAddress].consecutiveDays = resp.consecutiveDays
    /\ Cardinality(DaysClaimed(resp.walletAddress)) = resp.consecutiveDays

(***************************************************************************)
(* The account specification: an activated account w1, an unactivated      *)
(* account w2, an unregistered wallet w3, and any interleaving of          *)
(* create-account requests with the claim requests of the deployed         *)
(* revision                                                                *)
(***************************************************************************)
InitAccounts ==
    /\ InitClaim
    /\ accounts["w1"].membershipLevel = "Based"
    /\ LastClaim("w1") = Null

NextAccounts ==
    \E s \in Slots :
        \/ \E w \in Wallets, c \in Codes : CreateAccountArrive(s, w, "0xtx", c)
        \/ \E c \in Codes : CreateAccountGenerate(s, c)
        \/ CreateAccountSet(s)
        \/ \E w \in Wallets : DailyClaimArrive(s, w, "0xtx")
        \/ DailyClaimUpdate(s)
        \/ \E w \in Wallets : CheckinArrive(s, w)
        \/ CheckinUpdate(s)
        \/ StoreFailure(s)

SpecAccounts ==
    InitAccounts /\ [][NextAccounts]_vars

\* C13: a claim request that finds the account unactivated is rejected with
\* 400 and changes nothing, and no granted claim raises the enbBalance,
\* totalEarned or consecutiveDays of an account that is unactivated when the
\* claim is written
C13_OnlyActivatedClaim ==
    [][\A s \in Slots, w \in Wallets :
          /\ (/\ nreq' # nreq
              /\ resp'.kind \in {"daily-claim", "checkin"}
              /\ resp'.walletAddress = w
              /\ resp'.msg \notin {"Missing wallet address or transaction hash",
                                   "Missing wallet address"}
              /\ accounts[w].exists
              /\ ~accounts[w].isActivated)
             => /\ resp'.status = 400
                /\ resp'.msg = "Account is not activated"
                /\ accounts' = accounts
                /\ usage' = usage
                /\ transactions' = transactions
          /\ (/\ ClaimGranted(s) /\ reqs[s].walletAddress = w
              /\ ~accounts[w].isActivated)
             => /\ accounts'[w].enbBalance <= accounts[w].enbBalance
                /\ accounts'[w].totalEarned <= accounts[w].totalEarned
                /\ accounts'[w].consecutiveDays <= accounts[w].consecutiveDays]_vars

(***************************************************************************)
(* The code specification: the accounts of the account specification and   *)
(* any interleaving of create-account and create-default-user requests     *)
(***************************************************************************)
NextCodes ==
    \E s \in Slots :
        \/ \E w \in Wallets, c \in Codes : CreateAccountArrive(s, w, "0xtx", c)
        \/ \E c \in Codes : CreateAccountGenerate(s, c)
        \/ CreateAccountSet(s)
        \/ \E w \in Wallets, c \in Codes, m \in 0..MaxUsesArg :
              CreateDefaultUserArrive(s, w, c, m)
        \/ CreateDefaultUserSet(s)
        \/ StoreFailure(s)

SpecCodes ==
    InitAccounts /\ [][NextCodes]_vars

\* C14: no two accounts hold the same invitation code
C14_CodesUnique ==
    \A w, v \in Wallets :
        (/\ w # v
         /\ accounts[w].exists /\ accounts[v].exists
         /\ accounts[w].invitationCode # Missing)
        => accounts[w].invitationCode # accounts[v].invitationCode


(***************************************************************************)
(* The leaderboard specification: accounts of any activation and any       *)
(* values, as daily claims and balance updates leave them, and leaderboard *)
(* and ranking requests one after another (the handlers only read)         *)
(***************************************************************************)
Ranked(code, activated) ==
    {[NewAccount(code) EXCEPT !.isActivated = activated, !.enbBalance = b,
                              !.totalEarned = e, !.consecutiveDays = d] :
        b \in 0..MaxValue, e \in 0..MaxValue, d \in 0..MaxValue}

\* w1 of any activation and any values, w2 activated with any values, w3 of
\* any activation with one value in its three fields; w1 and w3 may be
\* unregistered
InitBoard ==
    /\ nreq = 0
    /\ now = FirstTick
    /\ revision = "daily-claim"
    /\ \E a1 \in {NoDoc} \cup Ranked("c1", TRUE) \cup Ranked("c1", FALSE),
          a2 \in Ranked("c2", TRUE),
          a3 \in {NoDoc} \cup
                 {a \in Ranked("c3", TRUE) \cup Ranked("c3", FALSE) :
                     /\ a.totalEarned = a.enbBalance
                     /\ a.consecutiveDays = a.enbBalance} :
          accounts = [w \in Wallets |->
                         IF w = "w1" THEN a1 ELSE IF w = "w2" THEN a2 ELSE a3]
    /\ usage = EmptyBag
    /\ transactions = EmptyBag
    /\ claimed = {}
    /\ chain = Undeployed
    /\ client = NotOpened
    /\ reqs = [s \in Slots |-> Idle]
    /\ resp = NoResp

LeaderboardInTurn(s, limitArg) ==
    /\ ~InFlight({"user-rankings"})
    /\ LeaderboardBalance(s, limitArg)

UserRankingsInTurn(s, walletAddress) ==
    /\ ~InFlight({"user-rankings"})
    /\ UserRankingsArrive(s, walletAddress)

NextBoard ==
    \E s \in Slots :
        \/ \E n \in 0..MaxLimit : LeaderboardInTurn(s, n)
        \/ \E w \in Wallets : UserRankingsInTurn(s, w)
        \/ UserRankingsBalance(s)
        \/ UserRankingsEarnings(s)
        \/ UserRankingsStreak(s)
        \/ StoreFailure(s)

SpecBoard == InitBoard /\ [][NextBoard]_vars

\* what the claim says of the response to ?limit=limitArg
LeaderboardAsSpecified(board, limitArg) ==
    /\ \A i \in 1..Len(board) : board[i].walletAddress \in ActivatedAccounts
    /\ Len(board) <= JsOr(limitArg, DefaultLimit)
    /\ \A i, j \in 1..Len(board) :
          i < j => board[i].enbBalance > board[j].enbBalance
    /\ \A i \in 1..Len(board) : board[i].rank = i

\* C15: GET /api/leaderboard/balance answers with activated accounts only, at
\* most limit of them (50 when no limit is given), in strictly descending
\* order of enbBalance, the i-th entry carrying rank i
C15_LeaderboardRanked ==
    [][\A s \in Slots, n \in 0..MaxLimit :
          LeaderboardBalance(s, n) => LeaderboardAsSpecified(resp'.leaderboard, n)]_vars

\* one plus the number of activated accounts whose field is strictly greater
\* than that of wallet w
RankOf(w, field) ==
    1 + Cardinality({v \in Wallets :
                        /\ accounts[v].exists
                        /\ accounts[v].isActivated
                        /\ Field(accounts[v], field) > Field(accounts[w], field)})

RankingAnswered(s) ==
    LET w == reqs[s].walletAddress
        Entry(field) == [rank |-> RankOf(w, field),
                         value |-> Field(accounts[w], field)]
    IN UserRankingsStreak(s) =>
          /\ resp'.status = 200
          /\ accounts[w].exists /\ accounts[w].isActivated
          /\ resp'.rankings.balance = Entry("enbBalance")
          /\ resp'.rankings.earnings = Entry("totalEarned")
          /\ resp'.rankings.streak = Entry("consecutiveDays")

RankingRefused(s, w) ==
    UserRankingsArrive(s, w) =>
          /\ ~accounts[w].exists =>
                resp'.status = 404 /\ resp'.msg = "Account not found"
          /\ accounts[w].exists /\ ~accounts[w].isActivated =>
                resp'.status = 400 /\ resp'.msg = "Account is not activated"
          /\ accounts[w].exists /\ accounts[w].isActivated =>
                resp' = NoResp /\ reqs'[s].pc = "balance"

\* C16: the ranks GET /api/user-rankings answers with are, for each of
\* enbBalance, totalEarned and consecutiveDays, one plus the number of
\* activated accounts whose value is strictly greater than the account's; an
\* unactivated account is answered 400 and an unknown wallet 404
C16_RankCountsGreater ==
    [][\A s \in Slots :
          /\ RankingAnswered(s)
          /\ \A w \in Wallets : RankingRefused(s, w)]_vars

\* w1 is ranked third by balance, second by earnings and first by streak
C16_ThreeRanks ==
    /\ resp.kind = "user-rankings"
    /\ resp.status = 200
    /\ resp.rankings.balance.rank = 3
    /\ resp.rankings.earnings.rank = 2
    /\ resp.rankings.streak.rank = 1
    /\ resp.rankings.streak.value > 0

(***************************************************************************)
(* The balance specification: an activated account w1 of any balance, an   *)
(* unactivated account w2, an unregistered wallet w3, and any interleaving *)
(* of update-balance requests                                              *)
(***************************************************************************)
Amounts == (-1..MaxAmount) \cup {Undefined}

InitBalance ==
    /\ nreq = 0
    /\ now = FirstTick
    /\ revision = "daily-claim"
    /\ \E b \in 0..MaxValue :
          accounts = [w \in Wallets |->
              IF w = "w1"
              THEN [NewAccount("c1") EXCEPT !.isActivated = TRUE,
                                            !.activatedAt = 0,
                                            !.enbBalance = b]
              ELSE IF w = "w2" THEN NewAccount("c2") ELSE NoDoc]
    /\ usage = EmptyBag
    /\ transactions = EmptyBag
    /\ claimed = {}
    /\ chain = Undeployed
    /\ client = NotOpened
    /\ reqs = [s \in Slots |-> Idle]
    /\ resp = NoResp

NextBalance ==
    \E s \in Slots :
        \/ \E w \in Wallets \cup {Missing}, amount \in Amounts,
              type \in TransactionTypes \cup {"refund", Missing} :
              UpdateBalanceArrive(s, w, amount, type)
        \/ UpdateBalanceCommit(s)
        \/ StoreFailure(s)

SpecBalance == InitBalance /\ [][NextBalance]_vars

\* response r is the 400 'Insufficient balance' of update-balance
AnsweredInsufficient(r) ==
    /\ r.kind = "update-balance"
    /\ r.status = 400
    /\ r.msg = "Insufficient balance"

\* C17: an update-balance debit of an amount greater than the enbBalance the
\* account holds is answered 400 'Insufficient balance', and neither the
\* balance nor the transaction log changes
C17_OverdraftRejected ==
    [][\A s \in Slots, w \in Wallets, amount \in Amounts \ {Undefined} :
          /\ UpdateBalanceArrive(s, w, amount, "debit")
          /\ accounts[w].exists
          /\ amount > accounts[w].enbBalance
          => /\ AnsweredInsufficient(resp')
             /\ accounts' = accounts
             /\ transactions' = transactions
             /\ reqs'[s] = Idle]_vars

\* a debit of more than the balance of w1 was refused after an earlier update
\* of that balance went through
C17_OverdraftRefused ==
    /\ AnsweredInsufficient(resp)
    /\ resp.walletAddress = "w1"
    /\ transactions # EmptyBag
    /\ \A s \in Slots : reqs[s] = Idle

\* the account and the log change together, by one record rec that is
\* consistent with the amount and becomes the balance
OneRecordAppended(rec) ==
    /\ transactions' = transactions (+) SetToBag({rec})
    /\ rec.type \in TransactionTypes
    /\ rec.balanceAfter = IF rec.type = "credit"
                          THEN rec.balanceBefore + rec.amount
                          ELSE rec.balanceBefore - rec.amount
    /\ accounts' = [accounts EXCEPT
                       ![rec.walletAddress].enbBalance = rec.balanceAfter]
    /\ resp'.previousBalance = rec.balanceBefore
    /\ resp'.newBalance = rec.balanceAfter

BalanceAnswered(r) ==
    r.kind = "update-balance" /\ r.status = 200

\* C18: every update-balance request that succeeds appends exactly one
\* transaction record, whose balanceAfter is balanceBefore plus the amount
\* for a credit and minus the amount for a debit, and sets enbBalance to
\* that balanceAfter in the same write; no record is ever changed or removed
C18_OneRecordPerUpdate ==
    [][/\ transactions \sqsubseteq transactions'
       /\ BalanceAnswered(resp') =>
             \E rec \in BagToSet(transactions') : OneRecordAppended(rec)
       /\ transactions' # transactions \/ accounts' # accounts =>
             BalanceAnswered(resp')]_vars

\* a debit has followed a credit on w1: two records, the balance that of the
\* later one
C18_CreditThenDebit ==
    /\ BalanceAnswered(resp)
    /\ BagCardinality(transactions) = 2
    /\ \E c, d \in BagToSet(transactions) :
          /\ c.type = "credit" /\ c.amount > 0 /\ c.walletAddress = "w1"
          /\ d.type = "debit" /\ d.amount > 0 /\ d.walletAddress = "w1"
          /\ d.balanceBefore = c.balanceAfter
          /\ accounts["w1"].enbBalance = d.balanceAfter

(***************************************************************************)
(* The contract specification: the contract funded, u1 and u2 holding any  *)
(* of a few token balances, and any calls of the users and the owner as    *)
(* blocks are mined; of the owner's transfers out of the contract the one  *)
(* called is withdrawAllTokens                                             *)
(***************************************************************************)
\* the token balances of u1, around the two upgrade requirements
Holdings == {0, 4999, 5000, 20000}
\* the tokens the contract is funded with
ContractFunds == 20

InitContract ==
    /\ nreq = 0
    /\ now = FirstTick
    /\ revision = "daily-claim"
    /\ accounts = [w \in Wallets |-> NoDoc]
    /\ usage = EmptyBag
    /\ transactions = EmptyBag
    /\ claimed = {}
    /\ reqs = [s \in Slots |-> Idle]
    /\ resp = NoResp
    /\ client = NotOpened
    /\ \E b1 \in Holdings :
          chain = Constructed([h \in Holders |->
                                  IF h = "u1" THEN b1
                                  ELSE IF h = "u2" THEN 5000
                                  ELSE IF h = Contract THEN ContractFunds
                                  ELSE 0],
                              DAILY_CLAIM_COOLDOWN)

NextContract ==
    \/ \E sender \in Users, user \in Users :
          \/ createAccount(sender, user)
          \/ \E success \in BOOLEAN : dailyClaim(sender, user, success)
          \/ \E targetLevel \in MembershipLevel, success \in BOOLEAN :
                upgradeMembership(sender, user, targetLevel, success)
    \/ \E sender \in {Owner, "u1"} :
          \/ withdrawAllTokens(sender)
          \/ pause(sender)
          \/ unpause(sender)
    \/ \E hours \in {DAILY_CLAIM_COOLDOWN - 1, DAILY_CLAIM_COOLDOWN} : Mine(hours)

SpecContract == InitContract /\ [][NextContract]_vars

\* user's account and the token balances are as they were
NothingMoved(user) ==
    /\ chain'.userAccounts[user] = chain.userAccounts[user]
    /\ chain'.balanceOf = chain.balanceOf

\* what the claim says of a dailyClaim(user) call made by sender: every
\* step is as the claim says or is no such call
CooldownEnforced(sender, user) ==
    LET account == chain.userAccounts[user]
        claimedBefore == chain.claimedAt[user] # 0
        enforced ==
            /\ chain'.error = Missing =>
                  /\ chain'.claimedAt[user] = chain.timestamp
                  /\ claimedBefore =>
                        chain.timestamp - chain.claimedAt[user] >= DAILY_CLAIM_COOLDOWN
            /\ account.lastDailyClaimTime + DAILY_CLAIM_COOLDOWN > chain.timestamp =>
                  /\ chain'.error # Missing
                  /\ NothingMoved(user)
                  /\ sender = user /\ ~chain.paused =>
                        chain'.error = "DailyClaimOnCooldown"
            /\ account.exists => account.lastDailyClaimTime = chain.claimedAt[user]
    IN enforced \/ \A success \in BOOLEAN : ~dailyClaim(sender, user, success)

\* C19: two successful dailyClaim calls for one user are at least
\* DAILY_CLAIM_COOLDOWN, 24 hours of block time, apart; a call made while
\* lastDailyClaimTime + 24 hours is later than the block time reverts, with
\* DailyClaimOnCooldown when the user makes it on the running contract, and
\* changes no field of the account and moves no tokens
C19_CooldownBetweenClaims ==
    [][\A sender \in Users, user \in Users :
          CooldownEnforced(sender, user)]_vars

\* u1 has claimed twice, a day apart, and its next call reverted
C19_ClaimedTwiceThenRefused ==
    /\ chain.error = "DailyClaimOnCooldown"
    /\ chain.userAccounts["u1"].totalDailyClaims = 2
    /\ chain.claimedAt["u1"] = 2 * DAILY_CLAIM_COOLDOWN
    /\ chain.userAccounts["u2"].totalDailyClaims = 0

\* what the claim says of an upgradeMembership(user, targetLevel) call:
\* every step is as the claim says or is no such call
UpgradeGuarded(user, targetLevel) ==
    LET account == chain.userAccounts[user]
        guarded ==
            /\ chain'.error = Missing =>
                  /\ targetLevel > account.membershipLevel
                  /\ chain.balanceOf[user] >= levelConfigs[targetLevel].upgradeRequirement
                  /\ chain'.userAccounts[user].membershipLevel = targetLevel
            /\ chain'.error # Missing =>
                  chain'.userAccounts[user] = account
    IN guarded \/ \A sender \in Users, success \in BOOLEAN :
                      ~upgradeMembership(sender, user, targetLevel, success)

\* C20: upgradeMembership succeeds only when the target level is strictly
\* higher than the account's level and the user's token balance is at least
\* the upgradeRequirement of the target level; no call of any function ever
\* lowers the membershipLevel of an account
C20_LevelOnlyRises ==
    [][/\ \A user \in Users, targetLevel \in MembershipLevel :
             UpgradeGuarded(user, targetLevel)
       /\ \A user \in Users :
             /\ chain'.userAccounts[user].membershipLevel
                   >= chain.userAccounts[user].membershipLevel
             /\ chain.userAccounts[user].exists => chain'.userAccounts[user].exists]_vars

\* u1 has gone up to Legendary, paying the requirement into the contract
C20_UpgradedToLegendary ==
    /\ chain.error = Missing
    /\ chain.userAccounts["u1"].membershipLevel = Legendary
    /\ chain.balanceOf["u1"] < levelConfigs[SuperBased].upgradeRequirement
    /\ chain.balanceOf[Contract] >= levelConfigs[Legendary].upgradeRequirement

\* C21: a membership upgrade only checks the balance of the wallet: a
\* successful upgradeMembership leaves the token balance of the user and the
\* token balance of the contract as they were
C21_UpgradeMovesNoTokens ==
    [][\A sender \in Users, user \in Users, targetLevel \in MembershipLevel,
          success \in BOOLEAN :
          upgradeMembership(sender, user, targetLevel, success)
          /\ chain'.error = Missing
          => /\ chain'.balanceOf[user] = chain.balanceOf[user]
             /\ chain'.balanceOf[Contract] = chain.balanceOf[Contract]]_vars

(***************************************************************************)
(* The claim-status specification: the accounts of the claim               *)
(* specification under the daily-claim revision, with status requests      *)
(* among the claims                                                        *)
(***************************************************************************)
InitStatus ==
    /\ InitClaim
    /\ revision = "daily-claim"

NextStatus ==
    \/ Tick
    \/ \E s \in Slots :
        \/ \E w \in Wallets : DailyClaimStatus(s, w)
        \/ \E w \in Wallets : DailyClaimArrive(s, w, "0xtx")
        \/ DailyClaimUpdate(s)
        \/ StoreFailure(s)

SpecStatus == InitStatus /\ [][NextStatus]_vars

\* a daily-claim request for wallet w arrives in slot s right after the
\* status of w was answered (resp is the answer of the step before, so the
\* clock and the store are those the status saw): the status said canClaim
\* exactly if the claim is accepted
StatusThenClaim(s, w) ==
    /\ DailyClaimArrive(s, w, "0xtx")
    /\ resp.kind = "daily-claim-status"
    /\ resp.status = 200
    /\ resp.walletAddress = w
    => (resp.canClaim <=> reqs'[s].pc = "update")

\* C22: GET /api/daily-claim-status answers canClaim = true exactly when a
\* daily-claim request for the same wallet at the same moment is accepted,
\* and lastClaimToday is the negation of canClaim
C22_StatusAgreesWithClaim ==
    [][/\ \A s \in Slots, w \in Wallets : StatusThenClaim(s, w)
       /\ resp'.kind = "daily-claim-status" /\ resp'.status = 200
          => resp'.lastClaimToday = ~resp'.canClaim]_vars

(***************************************************************************)
(* The callers specification: u1 holds the requirement of SuperBased; the  *)
(* functions of the users are called for either user by either user and by *)
(* the owner                                                               *)
(***************************************************************************)
InitCallers ==
    /\ InitContract
    /\ chain.balanceOf["u1"] = levelConfigs[SuperBased].upgradeRequirement

NextCallers ==
    \/ \E sender \in Callers, user \in Users :
          \/ createAccount(sender, user)
          \/ \E success \in BOOLEAN : dailyClaim(sender, user, success)
          \/ \E targetLevel \in MembershipLevel, success \in BOOLEAN :
                upgradeMembership(sender, user, targetLevel, success)
    \/ \E sender \in {Owner, "u1"} :
          \/ withdrawAllTokens(sender)
          \/ pause(sender)
          \/ unpause(sender)
    \/ \E hours \in {DAILY_CLAIM_COOLDOWN - 1, DAILY_CLAIM_COOLDOWN} : Mine(hours)

SpecCallers == InitCallers /\ [][NextCallers]_vars

\* sender calls one of the three functions of the users for user
CallFor(sender, user) ==
    \/ createAccount(sender, user)
    \/ \E success \in BOOLEAN : dailyClaim(sender, user, success)
    \/ \E targetLevel \in MembershipLevel, success \in BOOLEAN :
          upgradeMembership(sender, user, targetLevel, success)

\* the call reverted and neither an account nor a token balance changed
RevertedWithoutEffect ==
    /\ chain'.error # Missing
    /\ chain'.userAccounts = chain.userAccounts
    /\ chain'.balanceOf = chain.balanceOf

\* C23 as stated: a call of createAccount, dailyClaim or upgradeMembership
\* for user u from any other address, the owner included, reverts with
\* OnlySelfAllowed and changes neither the account of u nor a token balance
C23_OnlySelfAllowed ==
    [][\/ RevertedWithoutEffect /\ chain'.error = "OnlySelfAllowed"
       \/ \A sender \in Callers, user \in Users :
             sender # user => ~CallFor(sender, user)]_vars

\* C23, amended: such a call reverts and changes neither an account nor a
\* token balance; it reverts with OnlySelfAllowed when the contract is not
\* paused and with EnforcedPause when it is
C23_OnlySelfChangesState ==
    [][\/ /\ RevertedWithoutEffect
          /\ chain'.error = IF chain.paused THEN "EnforcedPause"
                            ELSE "OnlySelfAllowed"
       \/ \A sender \in Callers, user \in Users :
             sender # user => ~CallFor(sender, user)]_vars

\* a call for u1, who could claim and could upgrade, was refused
C23_OtherCallerRefused ==
    /\ chain.error = "OnlySelfAllowed"
    /\ ~chain.paused
    /\ chain.userAccounts["u1"].exists
    /\ chain.userAccounts["u1"].membershipLevel = Based
    /\ chain.balanceOf["u1"] >= levelConfigs[SuperBased].upgradeRequirement
    /\ ~OnCooldown(chain.userAccounts["u1"].lastDailyClaimTime, chain.timestamp)
    /\ ~chain.userAccounts["u2"].exists

(***************************************************************************)
(* The Account component specification: the component mounted for a        *)
(* connected or a missing address, with a profile that has or has not a    *)
(* last claim, the countdown, the clock, and claim flows one at a time     *)
(* (the button is disabled while dailyClaimLoading)                        *)
(***************************************************************************)
InitAccount ==
    /\ nreq = 0
    /\ now = FirstTick
    /\ revision = "daily-claim"
    /\ accounts = [w \in Wallets |-> NoDoc]
    /\ usage = EmptyBag
    /\ transactions = EmptyBag
    /\ claimed = {}
    /\ reqs = [s \in Slots |-> Idle]
    /\ resp = NoResp
    /\ chain = Undeployed
    /\ \E address \in {"w1", Missing},
          lastDailyClaimTime \in {Null} \cup ((FirstTick - TicksPerDay)..FirstTick) :
          client = [NotOpened EXCEPT
                       !.account = AccountMounted(address, lastDailyClaimTime)]

NextAccount ==
    \/ Tick
    \/ Countdown
    \/ handleDailyClaim
    \/ WriteContractResolved
    \/ WriteContractRejected
    \/ \E ok \in BOOLEAN : FetchResolved(ok)
    \/ JsonResolved
    \/ ResponseRejected
    \/ \E updated \in BOOLEAN, age \in {0, 1} :
          RefreshProfileReturned(updated, age)

SpecAccount == InitAccount /\ [][NextAccount]_vars

\* C24: the Account component sends POST /api/daily-claim only in the step
\* in which the dailyClaim call of the contract returned its transaction
\* hash; a click while canClaim is false or no address is connected, and a
\* call that fails, send nothing; and whenever no flow is running
\* dailyClaimLoading is false
C24_PostOnlyAfterHash ==
    [][LET a == client.account
           b == client'.account
       IN /\ b.posted # a.posted =>
                /\ a.pc = "writeContract"
                /\ b.hashes = a.hashes + 1
                /\ b.posted = a.posted + 1
          /\ handleDailyClaim /\ (a.address = Missing \/ ~a.canClaim) =>
                b = a
          /\ WriteContractRejected =>
                b.posted = a.posted /\ b.pc = "idle" /\ b.alerted
          /\ b.pc = "idle" => ~b.dailyClaimLoading
          /\ b.dailyClaimLoading => b.pc # "idle" /\ a.address # Missing]_vars

\* a claim went through and a later call of the contract failed: one hash,
\* one request, the modal shown, and the flow over
C24_ClaimedThenFailed ==
    /\ client.account.pc = "idle"
    /\ client.account.posted = 1
    /\ client.account.hashes = 1
    /\ client.account.showDailyClaimModal
    /\ client.account.alerted
    /\ ~client.account.dailyClaimLoading
    /\ client.account.canClaim
    /\ client.account.lastDailyClaimTime # Null
    /\ now > client.account.lastDailyClaimTime + DayMs

\* C25: the canClaim that the client computes, no previous claim or at least
\* 24 hours since the lastDailyClaimTime of the profile, is true exactly when
\* the API would not reject a daily-claim at that moment as already claimed
\* today
C25_ClientGateAgrees ==
    calculateTimeLeft(client.account.lastDailyClaimTime, now)
        <=> ~claimedToday(client.account.lastDailyClaimTime, now)


\* C26: an account whose isActivated is true stays an account with
\* isActivated true: no request of the API turns it back or removes it
C26_ActivatedStaysActivated ==
    [][\A w \in Wallets :
          accounts[w].exists /\ accounts[w].isActivated
              => accounts'[w].exists /\ accounts'[w].isActivated]_vars

\* the number of usage records of a code in invitationUsage
UsageRecords(code) ==
    BagCardinality([u \in {v \in BagToSet(usage) : v.invitationCode = code}
                       |-> CopiesIn(u, usage)])

\* the currentInvitationUses of every account that owns an invitation code
\* equals the number of usage records of that code
CounterMatchesRecords ==
    \A w \in Wallets :
        (accounts[w].exists /\ accounts[w].invitationCode # Missing) =>
            JsOr(accounts[w].currentInvitationUses, 0)
                = UsageRecords(accounts[w].invitationCode)

\* C27: the currentInvitationUses of every account that owns an invitation
\* code equals the number of usage records of that code in every reachable
\* state, under any interleaving of activate-account requests: no commit of
\* an activation takes a state where the two agree to one where they differ
C27_CounterMatchesRecords ==
    [][(CounterMatchesRecords /\ \E s \in Slots : ActivateCommit(s))
          => CounterMatchesRecords']_vars

\* C28: the enbBalance of every account is at least zero after any sequence
\* of update-balance requests, credit or debit, of any numeric amount
C28_BalanceNeverNegative ==
    \A w \in Wallets :
        accounts[w].exists => accounts[w].enbBalance >= 0

\* C29: no account is activated with its own invitation code: after every
\* successful activate-account the stored inviterWallet differs from the
\* activated walletAddress
C29_NeverOwnCode ==
    [][(resp'.kind = "activate-account" /\ resp'.status = 200) =>
          LET w == resp'.walletAddress
          IN /\ accounts'[w].isActivated
             /\ accounts'[w].inviterWallet # w
             /\ accounts'[w].activatedBy # accounts'[w].invitationCode]_vars

(***************************************************************************)
(* The page specification: an activated account w1, an unactivated account *)
(* w2 and an unregistered wallet w3; the connected address changes and     *)
(* the profile requests resolve in any order                               *)
(***************************************************************************)
InitPage ==
    /\ InitBalance
    /\ accounts["w1"].enbBalance = 0

NextPage ==
    \/ \E address \in Wallets \cup {Missing} : AddressChanged(address)
    \/ refreshUserProfile
    \/ \E walletAddress \in Wallets : ProfileFetched(walletAddress)
    \/ \E walletAddress \in Wallets : ProfileFailed(walletAddress)

SpecPage ==
    InitPage /\ [][NextPage]_vars

\* C30: whenever profileState is 'found' the held userProfile is not null
\* and is the profile of the connected address, and the Account view is
\* rendered only for such a profile with isActivated true, also when the
\* connected address changes while a profile request is in flight
C30_ProfileOfConnectedAddress ==
    LET p == client.page
    IN /\ p.profileState = "found" =>
             p.userProfile # Missing /\ p.userProfile = p.address
       /\ renderMainComponent(p) = "Account" =>
             p.userProfile = p.address /\ p.isActivated
====
